---------------------------- MODULE Spec2Model ----------------------------
(***************************************************************************)
(* The adaptive caching subsystem of SleeperMCP: the compression codec,    *)
(* the tiered cache store (EnhancedCacheService, with CacheService.wrap),  *)
(* the TTL policy engine (SmartTTLManager), the invalidation engine        *)
(* (CacheInvalidator), the warmer (CacheWarmer) and the manager            *)
(* (CacheManager).                                                         *)
(*                                                                         *)
(* Spec     the store: one store instance (an EnhancedCacheService or a    *)
(*          CacheService), its local tier (node-cache), the shared Redis   *)
(*          database and the Redis client's connection status.  Every      *)
(*          public operation is one action, run to completion (sequential  *)
(*          callers).                                                      *)
(* TTLSpec  the TTL policy engine alone: strategy table, league-phase      *)
(*          snapshot, clock.                                               *)
(* InvalidationSpec  the invalidator over the store: pattern and trigger   *)
(*          invalidation, deferred rule batches.                           *)
(* ScheduleSpec  the automatic invalidation scheduler on a running clock.  *)
(* WarmSpec the warmer: cycles of batched tasks, producers, timeouts.      *)
(* ManagerSpec  the manager: health status and emergency reset.            *)
(***************************************************************************)
EXTENDS Integers, Sequences, FiniteSets, TLC

VARIABLES
    memoryCache,      \* EnhancedCacheService.memoryCache: key -> stored entry
    redisDb,          \* the Redis database behind redisClient: key -> payload
    redisStatus,      \* redisClient.status
    service,          \* the class of the store instance
    cacheEnabled,     \* config.CACHE_ENABLED
    useRedis,         \* EnhancedCacheService.useRedis
    options,          \* CompressionManager.options
    strategies,       \* SmartTTLManager.strategies
    nflState,         \* SmartTTLManager.nflState
    lastStateUpdate,  \* SmartTTLManager.lastStateUpdate (minutes)
    now,              \* wall clock (minutes)
    invalidationRules,    \* CacheInvalidator.invalidationRules
    lastInvalidationRun,  \* CacheInvalidator.lastInvalidationRun (minutes)
    scheduled,            \* pending setTimeout callbacks of invalidateByTrigger
    lastFired,            \* history: when the scheduler last fired each trigger
    warmingInProgress,    \* CacheWarmer.warmingInProgress
    lastWarmingTime,      \* CacheWarmer.lastWarmingTime (minutes)
    warmingStats,         \* CacheWarmer.warmingStats
    tasks,                \* the sorted task list of the running warmCache
    batchStart,           \* executeBatched's i
    taskState,            \* where each task of the running cycle stands
    abandoned,            \* keys whose producer runs on after its task's timeout
    warmLog,              \* history: producer calls of the cycle, the cycle before,
                          \* expiry since that cycle / this cycle began
    resetPending,         \* an emergencyReset call is awaiting its warmCache
    targeted,             \* the executeBatched run of a warmLeagueData or of a
                          \* filtered manualWarm call
    lastScheduled,        \* history: the last cycle the warming scheduler started
    rpc,                  \* the processBatch call of the ParallelRPCProcessor
    calls,                \* set and wrap calls followed through their awaits,
                          \* in the order they were made
    lastSet,          \* history: value of the last completed set per key
    last              \* history: the operation that has just returned

vars == <<memoryCache, redisDb, redisStatus, service, cacheEnabled, useRedis,
          options, strategies, nflState, lastStateUpdate, now,
          invalidationRules, lastInvalidationRun, scheduled, lastFired,
          warmingInProgress, lastWarmingTime, warmingStats, tasks, batchStart,
          taskState, abandoned, warmLog, resetPending, targeted, calls, lastScheduled,
          rpc, lastSet, last>>

configVars == <<service, cacheEnabled>>
tierVars == <<memoryCache, redisDb, useRedis, lastSet>>
ttlVars == <<nflState, lastStateUpdate>>
invalidatorVars == <<invalidationRules, lastInvalidationRun, scheduled, lastFired>>
\* The state of the engines built on the store.
warmerVars == <<warmingInProgress, lastWarmingTime, warmingStats, tasks, batchStart,
                taskState, abandoned, warmLog>>
managerVars == <<resetPending>>
targetedVars == <<targeted>>
callVars == <<calls, lastScheduled, rpc>>
engineVars == <<invalidatorVars, warmerVars, managerVars, targetedVars, callVars>>

-----------------------------------------------------------------------------
(* JavaScript values that flow through the cache.  A value is null, a      *)
(* one-digit number or an array of one-digit numbers.                      *)

Null == [kind |-> "null", num |-> 0, arr |-> <<>>]
Num(n) == [kind |-> "num", num |-> n, arr |-> <<>>]
Arr(s) == [kind |-> "arr", num |-> 0, arr |-> s]
\* No value at all (a TypeScript "undefined" / an unset history slot).
NoValue == [kind |-> "none", num |-> 0, arr |-> <<>>]

Digits == <<"0", "1", "2", "3", "4", "5", "6", "7", "8", "9">>
IsDigit(c) == \E i \in 1..10 : Digits[i] = c
DigitValue(c) == (CHOOSE i \in 1..10 : Digits[i] = c) - 1

\* JSON.stringify(value): the characters of the JSON text.
JSONstringify(v) ==
    CASE v.kind = "null" -> <<"n", "u", "l", "l">>
      [] v.kind = "num" -> <<Digits[v.num + 1]>>
      [] v.kind = "arr" ->
            <<"[">> \o
            [i \in 1..(IF Len(v.arr) = 0 THEN 0 ELSE 2 * Len(v.arr) - 1) |->
                IF i % 2 = 1 THEN Digits[v.arr[(i + 1) \div 2] + 1] ELSE ","] \o
            <<"]">>

\* JSON.parse(text): the value, or NoValue when the text is not JSON
\* (JSON.parse throws SyntaxError).
JSONparse(t) ==
    IF t = <<"n", "u", "l", "l">> THEN Null
    ELSE IF Len(t) = 1 /\ IsDigit(t[1]) THEN Num(DigitValue(t[1]))
    ELSE IF Len(t) >= 2 /\ t[1] = "[" /\ t[Len(t)] = "]" THEN
        LET inner == SubSeq(t, 2, Len(t) - 1) IN
        IF inner = <<>> THEN Arr(<<>>)
        ELSE IF /\ Len(inner) % 2 = 1
                /\ \A i \in 1..Len(inner) :
                      IF i % 2 = 1 THEN IsDigit(inner[i]) ELSE inner[i] = ","
             THEN Arr([i \in 1..((Len(inner) + 1) \div 2) |->
                          DigitValue(inner[2 * i - 1])])
             ELSE NoValue
    ELSE NoValue

\* Buffer.byteLength(text, 'utf8'): every character of the model is one byte.
byteLength(t) == Len(t)


-----------------------------------------------------------------------------
(* zlib gzip followed by Buffer.toString('base64').  The compressed text   *)
(* is the gzip magic (base64 "H4sI") followed by the run-length coding of  *)
(* the input: a real, invertible coding in which a text that was never     *)
(* compressed does not decode.                                             *)

GzipMagic == "H4sI"

\* Length of the run of equal characters at the head of t (at most 9).
HeadRun(t) ==
    CHOOSE n \in 1..Len(t) :
        /\ n <= 9
        /\ \A i \in 1..n : t[i] = t[1]
        /\ (n = Len(t) \/ n = 9 \/ t[n + 1] # t[1])

RECURSIVE RunLength(_)
RunLength(t) ==
    IF t = <<>> THEN <<>>
    ELSE LET n == HeadRun(t) IN
         <<Digits[n + 1], t[1]>> \o RunLength(SubSeq(t, n + 1, Len(t)))

RECURSIVE RunExpand(_)
RunExpand(g) ==
    IF g = <<>> THEN <<>>
    ELSE [i \in 1..DigitValue(g[1]) |-> g[2]] \o RunExpand(SubSeq(g, 3, Len(g)))

\* gzipAsync(jsonString).toString('base64')
gzipBase64(t) == <<GzipMagic>> \o RunLength(t)

\* Whether gunzipAsync(Buffer.from(data, 'base64')) succeeds.
IsGzip(g) ==
    /\ Len(g) >= 1
    /\ g[1] = GzipMagic
    /\ Len(g) % 2 = 1
    /\ \A i \in 2..Len(g) : i % 2 = 0 => (IsDigit(g[i]) /\ g[i] # "0")

\* gunzipAsync(Buffer.from(data, 'base64')).toString('utf8'), for IsGzip(g).
gunzipBase64(g) == RunExpand(SubSeq(g, 2, Len(g)))

\* An absent optional number (compressedSize?: number left undefined).
Undefined == -1

\* shouldCompress with a threshold that the size has to exceed.
shouldCompress_Exceeds(data, opts) ==
    IF ~opts.enabled THEN FALSE ELSE byteLength(data) > opts.threshold

\* CompressionManager.shouldCompress
shouldCompress(data, opts) ==
    IF ~opts.enabled THEN FALSE ELSE byteLength(data) >= opts.threshold

\* CompressionManager.compress.  gzipFails: the gzip call rejects.
compress(value, opts, gzipFails) ==
    LET jsonString == JSONstringify(value)
        originalSize == byteLength(jsonString)
        plain == [data |-> jsonString, compressed |-> FALSE,
                  originalSize |-> originalSize, compressedSize |-> Undefined]
    IN  IF ~shouldCompress(jsonString, opts) THEN plain
        ELSE IF gzipFails THEN plain
        ELSE LET compressedData == gzipBase64(jsonString) IN
             [data |-> compressedData, compressed |-> TRUE,
              originalSize |-> originalSize,
              compressedSize |-> byteLength(compressedData)]

\* CompressionManager.decompress: [ok, value, error].
decompress(data, wasCompressed) ==
    IF ~wasCompressed THEN
        LET v == JSONparse(data) IN
        IF v = NoValue THEN [ok |-> FALSE, value |-> NoValue, error |-> "SyntaxError"]
                       ELSE [ok |-> TRUE, value |-> v, error |-> "none"]
    ELSE
        LET v == IF IsGzip(data) THEN JSONparse(gunzipBase64(data)) ELSE NoValue IN
        IF v = NoValue
        THEN [ok |-> FALSE, value |-> NoValue,
              error |-> "Failed to decompress cached data"]
        ELSE [ok |-> TRUE, value |-> v, error |-> "none"]

\* CompressionManager.createCacheMetadata with the entry built in set: the
\* stored CacheEntry.  metadata.timestamp and metadata.version are written
\* and never read; they are left out.
CacheEntry(c) ==
    [data |-> c.data, compressed |-> c.compressed,
     originalSize |-> c.originalSize, compressedSize |-> c.compressedSize]

-----------------------------------------------------------------------------
(* TTL policy engine: SmartTTLManager.  Durations are seconds, the clock   *)
(* and lastStateUpdate are minutes.                                        *)

\* A JavaScript number used as a condition: undefined and 0 are falsy.
Truthy(n) == n # Undefined /\ n # 0

Max(a, b) == IF a >= b THEN a ELSE b

\* private strategies: the table the constructor installs.
DefaultStrategies ==
    [user        |-> [baseTTL |-> 86400, gameTimeTTL |-> 86400,
                      offSeasonTTL |-> 604800, waiverTimeTTL |-> Undefined],
     league      |-> [baseTTL |-> 43200, gameTimeTTL |-> 43200,
                      offSeasonTTL |-> 86400, waiverTimeTTL |-> Undefined],
     roster      |-> [baseTTL |-> 3600, gameTimeTTL |-> 3600,
                      offSeasonTTL |-> 86400, waiverTimeTTL |-> 300],
     matchup     |-> [baseTTL |-> 3600, gameTimeTTL |-> 60,
                      offSeasonTTL |-> 86400, waiverTimeTTL |-> Undefined],
     transaction |-> [baseTTL |-> 1800, gameTimeTTL |-> 600,
                      offSeasonTTL |-> 43200, waiverTimeTTL |-> Undefined],
     player      |-> [baseTTL |-> 21600, gameTimeTTL |-> 3600,
                      offSeasonTTL |-> 604800, waiverTimeTTL |-> Undefined],
     trending    |-> [baseTTL |-> 900, gameTimeTTL |-> 300,
                      offSeasonTTL |-> 3600, waiverTimeTTL |-> Undefined],
     draft       |-> [baseTTL |-> 86400, gameTimeTTL |-> 86400,
                      offSeasonTTL |-> 604800, waiverTimeTTL |-> Undefined],
     nfl_state   |-> [baseTTL |-> 300, gameTimeTTL |-> 60,
                      offSeasonTTL |-> 3600, waiverTimeTTL |-> Undefined]]

\* private stateUpdateInterval = 5 * 60 * 1000 ms, in minutes.
stateUpdateInterval == 5

\* getOptimalTTL's answer for a data type without a strategy.
UnknownTypeTTL == 300

\* getContextualTTL's floor.
MinimumTTL == 30

\* nflState: SleeperNFLState | null.
NoState == [season_type |-> "none", week |-> 0]

\* SmartTTLManager.getNFLState.  m is the manager's snapshot state together
\* with the number of feed calls made so far in the running computation;
\* feed tells how the league-phase feed answers: its first feed.failures
\* calls reject, the next one resolves to feed.state.
getNFLState(m, clock, feed) ==
    IF m.nflState = NoState \/ clock - m.lastStateUpdate > stateUpdateInterval
    THEN IF m.calls < feed.failures
         THEN [m EXCEPT !.calls = @ + 1]
         ELSE [nflState |-> feed.state, lastStateUpdate |-> clock,
               calls |-> m.calls + 1]
    ELSE m

\* isGameTime with the Monday window opening an hour late.
isGameTime_LateMonday(state, t) ==
    LET dayOfWeek == t[1]
        hour == t[2]
    IN  IF state = NoState THEN FALSE
        ELSE IF state.season_type = "pre" THEN FALSE
        ELSE IF state.season_type = "regular" \/ state.season_type = "post"
             THEN \/ (dayOfWeek = 4 /\ hour >= 20 /\ hour <= 23)
                  \/ (dayOfWeek = 0 /\ hour >= 13 /\ hour <= 23)
                  \/ (dayOfWeek = 1 /\ hour > 20 /\ hour <= 23)
             ELSE FALSE

\* SmartTTLManager.isGameTime, after its getNFLState call; t = <<day, hour>>
\* as new Date().getDay() and getHours() give them.
isGameTime(state, t) ==
    LET dayOfWeek == t[1]
        hour == t[2]
    IN  IF state = NoState THEN FALSE
        ELSE IF state.season_type = "pre" THEN FALSE
        ELSE IF state.season_type = "regular" \/ state.season_type = "post"
             THEN \/ (dayOfWeek = 4 /\ hour >= 20 /\ hour <= 23)
                  \/ (dayOfWeek = 0 /\ hour >= 13 /\ hour <= 23)
                  \/ (dayOfWeek = 1 /\ hour >= 20 /\ hour <= 23)
             ELSE FALSE

\* SmartTTLManager.isWaiverTime
isWaiverTime(t) ==
    LET dayOfWeek == t[1]
        hour == t[2]
    IN  \/ (dayOfWeek = 2 /\ hour >= 22)
        \/ (dayOfWeek = 3 /\ hour <= 6)

\* getOptimalTTL with the waiver test put before the off-season test.
getOptimalTTL_WaiverFirst(table, dataType, m, clock, t, feed) ==
    IF dataType \notin DOMAIN table
    THEN [ttl |-> UnknownTypeTTL, m |-> m, seen |-> {}]
    ELSE
        LET strategy == table[dataType]
            m1 == getNFLState(m, clock, feed)
            state == m1.nflState
            m2 == getNFLState(m1, clock, feed)
            seen2 == {state.season_type, m2.nflState.season_type}
        IN  IF /\ dataType = "roster"
               /\ Truthy(strategy.waiverTimeTTL)
               /\ isWaiverTime(t)
            THEN [ttl |-> strategy.waiverTimeTTL, m |-> m1,
                  seen |-> {state.season_type}]
            ELSE IF state = NoState \/ state.season_type = "pre"
            THEN [ttl |-> strategy.offSeasonTTL, m |-> m1,
                  seen |-> {state.season_type}]
            ELSE IF isGameTime(m2.nflState, t)
            THEN [ttl |-> strategy.gameTimeTTL, m |-> m2, seen |-> seen2]
            ELSE [ttl |-> strategy.baseTTL, m |-> m2, seen |-> seen2]

\* SmartTTLManager.getOptimalTTL: [ttl, m, seen], m the manager state it
\* leaves and seen the season types of the snapshots it has read.
getOptimalTTL(table, dataType, m, clock, t, feed) ==
    IF dataType \notin DOMAIN table
    THEN [ttl |-> UnknownTypeTTL, m |-> m, seen |-> {}]
    ELSE
        LET strategy == table[dataType]
            m1 == getNFLState(m, clock, feed)
            state == m1.nflState
            m2 == getNFLState(m1, clock, feed)
            seen2 == {state.season_type, m2.nflState.season_type}
        IN  IF state = NoState \/ state.season_type = "pre"
            THEN [ttl |-> strategy.offSeasonTTL, m |-> m1,
                  seen |-> {state.season_type}]
            ELSE IF /\ dataType = "roster"
                    /\ Truthy(strategy.waiverTimeTTL)
                    /\ isWaiverTime(t)
            THEN [ttl |-> strategy.waiverTimeTTL, m |-> m1,
                  seen |-> {state.season_type}]
            ELSE IF isGameTime(m2.nflState, t)
            THEN [ttl |-> strategy.gameTimeTTL, m |-> m2, seen |-> seen2]
            ELSE [ttl |-> strategy.baseTTL, m |-> m2, seen |-> seen2]

\* getContextualTTL without its final Math.max(ttl, 30).
getContextualTTL_NoFloor(table, dataType, week, m, clock, t, feed) ==
    LET r == getOptimalTTL(table, dataType, m, clock, t, feed) IN
    IF week = Undefined
    THEN [ttl |-> r.ttl, m |-> r.m, seen |-> r.seen, optimal |-> r.ttl]
    ELSE
        LET m3 == getNFLState(r.m, clock, feed)
            state == m3.nflState
            halved == IF state # NoState /\ week = state.week
                      THEN r.ttl \div 2 ELSE r.ttl
            ttl == IF state # NoState /\ week > state.week
                   THEN (3 * halved) \div 2 ELSE halved
        IN  [ttl |-> ttl, m |-> m3,
             seen |-> r.seen \cup {state.season_type}, optimal |-> r.ttl]

\* getContextualTTL lengthening the duration for every week but the current.
getContextualTTL_OtherWeeksStable(table, dataType, week, m, clock, t, feed) ==
    LET r == getOptimalTTL(table, dataType, m, clock, t, feed) IN
    IF week = Undefined
    THEN [ttl |-> Max(r.ttl, MinimumTTL), m |-> r.m, seen |-> r.seen,
          optimal |-> r.ttl]
    ELSE
        LET m3 == getNFLState(r.m, clock, feed)
            state == m3.nflState
            halved == IF state # NoState /\ week = state.week
                      THEN r.ttl \div 2 ELSE r.ttl
            ttl == IF state # NoState /\ week # state.week
                   THEN (3 * halved) \div 2 ELSE halved
        IN  [ttl |-> Max(ttl, MinimumTTL), m |-> m3,
             seen |-> r.seen \cup {state.season_type}, optimal |-> r.ttl]

\* SmartTTLManager.getContextualTTL: [ttl, m, seen, optimal].  week =
\* Undefined when the caller's context names no week.
getContextualTTL(table, dataType, week, m, clock, t, feed) ==
    LET r == getOptimalTTL(table, dataType, m, clock, t, feed) IN
    IF week = Undefined
    THEN [ttl |-> Max(r.ttl, MinimumTTL), m |-> r.m, seen |-> r.seen,
          optimal |-> r.ttl]
    ELSE
        LET m3 == getNFLState(r.m, clock, feed)
            state == m3.nflState
            halved == IF state # NoState /\ week = state.week
                      THEN r.ttl \div 2 ELSE r.ttl
            ttl == IF state # NoState /\ week > state.week
                   THEN (3 * halved) \div 2 ELSE halved
        IN  [ttl |-> Max(ttl, MinimumTTL), m |-> m3,
             seen |-> r.seen \cup {state.season_type}, optimal |-> r.ttl]

\* SmartTTLManager.updateStrategy: the table after merging the partial
\* strategy (a function from some of the four fields to durations).
updateStrategy(table, dataType, partial) ==
    IF dataType \in DOMAIN table
    THEN [table EXCEPT ![dataType] =
            [f \in DOMAIN @ |-> IF f \in DOMAIN partial THEN partial[f] ELSE @[f]]]
    ELSE table

-----------------------------------------------------------------------------
(* Tiered cache store: EnhancedCacheService (enhanced-service) and         *)
(* CacheService (service.ts).  Both keep a node-cache local tier and share *)
(* the one Redis client; they differ in what they store:                   *)
(*   EnhancedCacheService  local: the CacheEntry; Redis: JSON of the entry *)
(*   CacheService          local: the value itself; Redis: JSON of it      *)

\* config.CACHE_DEFAULT_TTL
CACHE_DEFAULT_TTL == 300

\* A slot of a tier.  format: "none" (no entry), "entry" (a CacheEntry, or
\* in Redis its JSON text), "value" (a bare value, or in Redis its JSON text).
Slot(format, data, compressed, originalSize, compressedSize, value, ttl) ==
    [format |-> format, data |-> data, compressed |-> compressed,
     originalSize |-> originalSize, compressedSize |-> compressedSize,
     value |-> value, ttl |-> ttl]

NoSlot == Slot("none", <<>>, FALSE, 0, Undefined, NoValue, 0)

\* The CacheEntry e stored with a TTL (memoryCache.set(key, entry, ttl), or
\* redisClient.set(key, JSON.stringify(entry), 'EX', ttl)).
EntrySlot(e, ttl) ==
    Slot("entry", e.data, e.compressed, e.originalSize, e.compressedSize,
         NoValue, ttl)

\* CacheService: memoryCache.set(key, value, ttl).
ValueSlot(v, ttl) == Slot("value", <<>>, FALSE, 0, Undefined, v, ttl)

\* CacheService: redisClient.set(key, JSON.stringify(value), 'EX', ttl).
JsonSlot(v, ttl) == Slot("value", JSONstringify(v), FALSE, 0, Undefined, NoValue, ttl)

\* What JSON.parse of an EnhancedCacheService payload is to a reader that
\* takes it for the value: the object {data, metadata}.
EnvelopeObject == [kind |-> "envelope", num |-> 0, arr |-> <<>>]

\* The condition every operation puts before its Redis call; flag is
\* this.useRedis at that point.
RedisUsableWith(flag) == flag /\ redisStatus = "ready"
RedisUsable == RedisUsableWith(useRedis)

\* What a get leaves and returns.
GetOutcome(result, source, raised, redisFailed, corrupt, flag) ==
    [result |-> result, source |-> source, raised |-> raised,
     redisFailed |-> redisFailed, corrupt |-> corrupt, useRedis |-> flag]

\* EnhancedCacheService.get, the local-tier part (lines 80-93).
EnhancedGetMemory(k, redisFailed, corrupt, flag) ==
    LET value == memoryCache[k] IN
    IF value.format # "none" THEN
        LET d == decompress(value.data, value.compressed) IN
        IF d.ok
        THEN GetOutcome(d.value, "memory", "none", redisFailed, corrupt, flag)
        ELSE GetOutcome(Null, "error", "none", redisFailed, TRUE, flag)
    ELSE GetOutcome(Null, "miss", "none", redisFailed, corrupt, flag)

\* EnhancedCacheService.get with a catch that leaves useRedis as it was.
EnhancedGet_KeepsFlag(k, redisFails) ==
    IF ~cacheEnabled THEN GetOutcome(Null, "disabled", "none", FALSE, FALSE, useRedis)
    ELSE IF RedisUsable THEN
        IF redisFails THEN EnhancedGetMemory(k, TRUE, FALSE, useRedis)
        ELSE
            LET value == redisDb[k] IN
            IF value.format = "none" THEN EnhancedGetMemory(k, FALSE, FALSE, useRedis)
            ELSE IF value.format # "entry"
                 THEN EnhancedGetMemory(k, FALSE, TRUE, FALSE)
            ELSE
                LET d == decompress(value.data, value.compressed) IN
                IF d.ok
                THEN GetOutcome(d.value, "redis", "none", FALSE, FALSE, useRedis)
                ELSE EnhancedGetMemory(k, FALSE, TRUE, FALSE)
    ELSE EnhancedGetMemory(k, FALSE, FALSE, useRedis)

\* EnhancedCacheService.get.  redisFails: the Redis call rejects.
EnhancedGet(k, redisFails) ==
    IF ~cacheEnabled THEN GetOutcome(Null, "disabled", "none", FALSE, FALSE, useRedis)
    ELSE IF RedisUsable THEN
        IF redisFails THEN EnhancedGetMemory(k, TRUE, FALSE, FALSE)
        ELSE
            LET value == redisDb[k] IN
            IF value.format = "none" THEN EnhancedGetMemory(k, FALSE, FALSE, useRedis)
            ELSE IF value.format # "entry"
                 \* entry.metadata.compressed of a bare value: TypeError
                 THEN EnhancedGetMemory(k, FALSE, TRUE, FALSE)
            ELSE
                LET d == decompress(value.data, value.compressed) IN
                IF d.ok
                THEN GetOutcome(d.value, "redis", "none", FALSE, FALSE, useRedis)
                ELSE EnhancedGetMemory(k, FALSE, TRUE, FALSE)
    ELSE EnhancedGetMemory(k, FALSE, FALSE, useRedis)

\* CacheService.get, the local-tier part (lines 205-217).
BasicGetMemory(k, redisFailed, corrupt, flag) ==
    LET value == memoryCache[k] IN
    IF value.format # "none"
    THEN GetOutcome(value.value, "memory", "none", redisFailed, corrupt, flag)
    ELSE GetOutcome(Null, "miss", "none", redisFailed, corrupt, flag)

\* CacheService.get
BasicGet(k, redisFails) ==
    IF ~cacheEnabled THEN GetOutcome(Null, "disabled", "none", FALSE, FALSE, useRedis)
    ELSE IF RedisUsable THEN
        IF redisFails THEN BasicGetMemory(k, TRUE, FALSE, FALSE)
        ELSE
            LET value == redisDb[k] IN
            IF value.format = "none" THEN BasicGetMemory(k, FALSE, FALSE, useRedis)
            ELSE IF value.format = "entry"
                 THEN GetOutcome(EnvelopeObject, "redis", "none", FALSE, FALSE, useRedis)
            ELSE
                LET v == JSONparse(value.data) IN
                IF v # NoValue
                THEN GetOutcome(v, "redis", "none", FALSE, FALSE, useRedis)
                ELSE BasicGetMemory(k, FALSE, TRUE, FALSE)
    ELSE BasicGetMemory(k, FALSE, FALSE, useRedis)

\* get of the instance's class.
get(k, redisFails) ==
    IF service = "EnhancedCacheService" THEN EnhancedGet(k, redisFails)
                                        ELSE BasicGet(k, redisFails)

\* const cacheTTL = ttl || config.CACHE_DEFAULT_TTL
cacheTTL(ttl) == IF Truthy(ttl) THEN ttl ELSE CACHE_DEFAULT_TTL

\* What set writes to Redis and to the local tier (set, lines 99-129 of the
\* enhanced service and 225-239 of service.ts).
RedisPayload(v, ttl, gzipFails) ==
    IF service = "EnhancedCacheService"
    THEN EntrySlot(CacheEntry(compress(v, options, gzipFails)), cacheTTL(ttl))
    ELSE JsonSlot(v, cacheTTL(ttl))

MemoryPayload(v, ttl, gzipFails) ==
    IF service = "EnhancedCacheService"
    THEN EntrySlot(CacheEntry(compress(v, options, gzipFails)), cacheTTL(ttl))
    ELSE ValueSlot(v, cacheTTL(ttl))

\* set writing the local tier only when its Redis write went through.
SetEffect_LocalAfterRedis(k, v, ttl, flag, redisFails, gzipFails) ==
    IF ~cacheEnabled
    THEN [memoryCache |-> memoryCache, redisDb |-> redisDb, useRedis |-> flag,
          redisFailed |-> FALSE]
    ELSE [memoryCache |-> IF RedisUsableWith(flag) /\ ~redisFails
                          THEN [memoryCache EXCEPT ![k] = MemoryPayload(v, ttl, gzipFails)]
                          ELSE memoryCache,
          redisDb |-> IF RedisUsableWith(flag) /\ ~redisFails
                      THEN [redisDb EXCEPT ![k] = RedisPayload(v, ttl, gzipFails)]
                      ELSE redisDb,
          useRedis |-> IF RedisUsableWith(flag) /\ redisFails THEN FALSE ELSE flag,
          redisFailed |-> RedisUsableWith(flag) /\ redisFails]

\* The tiers and the flag after set(k, v, ttl) has returned; flag is
\* this.useRedis when set is called.
SetEffect(k, v, ttl, flag, redisFails, gzipFails) ==
    IF ~cacheEnabled
    THEN [memoryCache |-> memoryCache, redisDb |-> redisDb, useRedis |-> flag,
          redisFailed |-> FALSE]
    ELSE [memoryCache |-> [memoryCache EXCEPT ![k] = MemoryPayload(v, ttl, gzipFails)],
          redisDb |-> IF RedisUsableWith(flag) /\ ~redisFails
                      THEN [redisDb EXCEPT ![k] = RedisPayload(v, ttl, gzipFails)]
                      ELSE redisDb,
          useRedis |-> IF RedisUsableWith(flag) /\ redisFails THEN FALSE ELSE flag,
          redisFailed |-> RedisUsableWith(flag) /\ redisFails]

-----------------------------------------------------------------------------
(* Bounds and input sets.                                                  *)

Keys == {"state:league", "bar:1", "foo:1", "matchups:1", "players:trending:1",
         "state:nfl", "players:all:nfl", "players:trending:nfl:add::",
         "players:trending:nfl:drop::",
         "league:1", "league:12", "matchups:12:3", "winners_bracket:12",
         "drafts:league:1", "rosters:1", "users:1"}
\* The keys the callers of Spec use.
StoreKeys == {"state:league"}
Values == {Null, Num(7), Arr(<<1, 1, 1>>)}
Services == {"EnhancedCacheService", "CacheService"}

\* ttl arguments of set and wrap; 0 stands for an omitted ttl.
TTLInputs == {0, 60}

\* A threshold small enough for the values above to reach it.
SmallThreshold == 4
OptionPartials == {[threshold |-> SmallThreshold], [threshold |-> 1024]}

\* A producer returns a value or throws.
ProducerError == [kind |-> "error", num |-> 0, arr |-> <<>>]
ProducerOutcomes == Values \cup {ProducerError}

\* The clock (minutes) when the process starts: long after new Date(0).
StartTime == 10
\* How far the clock runs, and by how much one step moves it.
MaxTime == 19
TickMinutes == 3

\* <<getDay(), getHours()>> samples: in and around every window.
TimePoints ==
    {<<0, 12>>, <<0, 13>>, <<0, 23>>, <<1, 19>>, <<1, 20>>, <<2, 21>>,
     <<2, 22>>, <<3, 6>>, <<3, 7>>, <<4, 20>>, <<4, 19>>, <<5, 20>>, <<6, 13>>}

\* What the league-phase feed can resolve to.
FeedStates ==
    {[season_type |-> "pre", week |-> 2], [season_type |-> "regular", week |-> 2],
     [season_type |-> "post", week |-> 2]}
\* One TTL computation calls getNFLState at most three times.
MaxFeedFailures == 3
Feeds == [failures : 0..MaxFeedFailures, state : FeedStates]

\* TTLSpec: data types (bracket has no strategy), context weeks, updates.
TTLDataTypes == {"roster", "matchup", "bracket"}
ContextWeeks == {Undefined, 1, 2, 3}
StrategyUpdates ==
    {<<"matchup", [gameTimeTTL |-> 20]>>, <<"matchup", [baseTTL |-> 45]>>,
     <<"roster", [waiverTimeTTL |-> 20]>>, <<"bracket", [baseTTL |-> 20]>>}

\* Spec: what smartSet and smartWrap are called with.
SmartDataTypes == {"nfl_state", "bracket"}
SmartTimes == {<<0, 13>>, <<5, 20>>}
SmartFeeds == {[failures |-> 0, state |-> [season_type |-> "regular", week |-> 2]]}

\* SmartSpec: smartSet and smartWrap with a context week, under strategy
\* tables with durations short enough to reach the floor.
SmartKeys == {"matchups:1"}
SmartValue == Num(7)
SmartContextTypes == {"matchup", "bracket"}
SmartUpdates == {<<"matchup", [gameTimeTTL |-> 20]>>, <<"matchup", [baseTTL |-> 45]>>}

\* InvalidationSpec: the keys written, the patterns and triggers passed.
InvalidationKeys == {"bar:1", "foo:1", "matchups:1", "players:trending:1"}
PatternInputs == {<<"foo", ":">>, <<"matchups", ":">>, <<"players", ":">>, <<"baz", ":">>}
TriggerInputs == {"game_start", "game_day", "week_change", "cache_cleared"}
InvalidationValue == Num(7)

\* LeagueSpec: the entries callers write and the league ids invalidated
\* (an id as its digits).
LeagueKeys == {"league:1", "league:12", "matchups:12:3", "winners_bracket:12",
               "drafts:league:1"}
LeagueIds == {<<"1">>, <<"1", "2">>}

\* DeferredSpec: the keys written, the triggers fired, the rules an operator
\* adds (at most MaxOperatorRules of them).
DeferredKeys == {"foo:1", "bar:1", "players:trending:1"}
DeferredTriggers == {"game_day", "game_start"}
OperatorRules ==
    {[pattern |-> <<"foo", ":">>, triggers |-> {"game_day"}, priority |-> "scheduled"],
     [pattern |-> <<"bar", ":">>, triggers |-> {"game_day"}, priority |-> "batch"]}
MaxOperatorRules == 1

\* ScheduleSpec: the clock starts five minutes before Sunday 13:00, Tuesday
\* 01:00 or Tuesday 22:00 and runs for ScheduleMaxElapsed minutes, a check
\* every ScheduleInterval minutes.
ScheduleStartTimes == {12 * 60 + 55, 2 * 1440 + 55, 2 * 1440 + 21 * 60 + 55}
ScheduleMaxElapsed == 70
ScheduleInterval == 5
ScheduleKeys == {"matchups:1", "players:trending:1"}
ScheduleFeeds ==
    {[failures |-> f, state |-> [season_type |-> t, week |-> 2]] :
        f \in {0, 3}, t \in {"regular", "pre"}}

\* ManagerSpec: the key callers write, what node-cache reports as the size
\* of its values (megabytes), the option change and the trigger a caller
\* makes.
ManagerKeys == {"matchups:1"}
MemoryUsages == {70, 90, 91}
ManagerPartials == {[enabled |-> FALSE]}
ManagerTriggers == {"game_start"}

\* WarmSpec: what a producer settles with, and the <<getDay(), getHours()>>
\* at which the warmer's entries are written.
WarmOutcomes == {Num(7), ProducerError}
\* No processBatch call has been made.
NoBatch == [requests |-> <<>>, plan |-> <<>>, phase |-> 0, status |-> <<>>,
            responses |-> <<>>, returned |-> FALSE]

\* No cycle has been started by the warming scheduler.
NeverScheduled == [start |-> Undefined, since |-> Undefined, interval |-> 0,
                   phase |-> "none", previous |-> Undefined]

\* WarmScheduleSpec: the clock when scheduleWarming is called and when the
\* run ends, and what the feed answers at a check (the last one after a
\* rejected call).
WarmScheduleStart == 1440
WarmScheduleEnd == 1580
WarmScheduleFeeds ==
    {[failures |-> 0, state |-> [season_type |-> "regular", week |-> 2]],
     [failures |-> 1, state |-> [season_type |-> "pre", week |-> 2]]}

\* CompressSpec: what updateOptions is called with.
CompressPartials ==
    {[threshold |-> SmallThreshold], [threshold |-> 1024], [enabled |-> FALSE],
     [enabled |-> TRUE], [threshold |-> 7, level |-> 9]}

\* BatchSpec: the methods with a registered executor, the requests a batch
\* is made of (method, dependencies, priority) and the longest batch.
RegisteredMethods == {"a", "b"}
RequestKinds ==
    {[method |-> "a", dependencies |-> {}, priority |-> "high"],
     [method |-> "a", dependencies |-> {}, priority |-> "low"],
     [method |-> "a", dependencies |-> {"b"}, priority |-> "high"],
     [method |-> "b", dependencies |-> {}, priority |-> "low"],
     [method |-> "b", dependencies |-> {"a"}, priority |-> "low"],
     [method |-> "b", dependencies |-> {"a"}, priority |-> "high"],
     [method |-> "b", dependencies |-> {"z"}, priority |-> "high"],
     [method |-> "c", dependencies |-> {"a"}, priority |-> "low"]}
MaxBatch == 3

\* OptimizeSpec: the hit rates getPerformanceMetrics can report, on both
\* sides of 50.
HitRates == {0, 50}

\* OverlapSpec: how many calls are followed, the key and the values they
\* use (the array is long enough to be compressed under the lowered
\* threshold), the ttl argument, the dataType of smartWrap.
MaxCalls == 2
OverlapKey == "matchups:1"
OverlapValues == {Num(7), Arr(<<1, 1, 1>>)}
OverlapTTL == 60
OverlapDataType == "matchup"

\* TargetedSpec: the league ids passed to warmLeagueData, the dataTypes
\* passed to manualWarm, what a producer that answers returns.
TargetedLeagueIds == {<<"1">>}
TargetedDataTypes == {{"trending"}}
TargetedValue == Num(7)
\* CycleSpec: what a producer that answers returns.
CycleValue == Num(7)
WarmTimes == {<<0, 13>>}

-----------------------------------------------------------------------------
(* State.                                                                  *)

\* The marker lastSet holds for a key whose last completed call was del or
\* flush.
Deleted == [kind |-> "deleted", num |-> 0, arr |-> <<>>]

\* last when no operation has just returned.
Idle ==
    [op |-> "none", key |-> "", value |-> NoValue, ttl |-> 0,
     result |-> NoValue, source |-> "none", raised |-> "none",
     redisCalled |-> FALSE, redisFailed |-> FALSE, corrupt |-> FALSE,
     producer |-> "none", dataType |-> "", week |-> Undefined,
     time |-> <<0, 0>>, seen |-> {}, optimal |-> 0, fetches |-> 0,
     pattern |-> <<>>, trigger |-> "", count |-> 0, fired |-> {}]

\* The rules CacheInvalidator is constructed with (a pattern /^text/ is
\* given as its text).
DefaultInvalidationRules ==
    << [pattern |-> <<"matchups", ":">>,
        triggers |-> {"game_start", "game_end", "score_update"},
        priority |-> "immediate"],
       [pattern |-> <<"rosters", ":">>,
        triggers |-> {"waiver_start", "waiver_end", "trade_completed"},
        priority |-> "immediate"],
       [pattern |-> <<"players", ":", "trending", ":">>,
        triggers |-> {"waiver_period", "game_day", "injury_report"},
        priority |-> "scheduled"],
       [pattern |-> <<"transactions", ":">>,
        triggers |-> {"waiver_period", "trade_deadline", "roster_moves"},
        priority |-> "scheduled"],
       [pattern |-> <<"state", ":", "nfl">>,
        triggers |-> {"week_change", "season_change", "schedule_update"},
        priority |-> "immediate"] >>

\* The triggers checkScheduleBasedInvalidation derives from the calendar.
ScheduleTriggers == {"week_change", "waiver_period", "game_day", "game_start"}

\* The keys of the tasks getWarmingTasks builds.
WarmKeys ==
    {"state:nfl", "players:all:nfl", "players:trending:nfl:add::",
     "players:trending:nfl:drop::"}

\* CacheWarmer as constructed; no cycle is running and none has run.
\* targeted when no such run is under way.
NoRun == [kind |-> "none", tasks |-> <<>>, batchStart |-> 0, taskState |-> <<>>,
          limit |-> 0]

WarmerInit ==
    /\ warmingInProgress = FALSE
    /\ lastWarmingTime = Undefined
    /\ warmingStats = [totalTasks |-> 0, completedTasks |-> 0, failedTasks |-> 0]
    /\ tasks = <<>>
    /\ batchStart = 0
    /\ taskState = <<>>
    /\ abandoned = {}
    /\ warmLog = [called |-> FALSE, recalled |-> FALSE, prevKeys |-> {},
                  prevClean |-> FALSE, disturbed |-> FALSE, current |-> FALSE]
    /\ resetPending = FALSE
    /\ targeted = NoRun
    /\ calls = <<>>
    /\ lastScheduled = NeverScheduled
    /\ rpc = NoBatch

\* CompressionManager.options as constructed.
DefaultOptions == [enabled |-> TRUE, threshold |-> 1024, level |-> 6]

\* The state once the constructor's checkRedisConnection has settled:
\* useRedis is true only if the client was ready and answered the ping.
Init ==
    /\ memoryCache = [k \in Keys |-> NoSlot]
    /\ redisDb = [k \in Keys |-> NoSlot]
    /\ redisStatus \in {"ready", "reconnecting"}
    /\ service \in Services
    /\ cacheEnabled \in BOOLEAN
    /\ useRedis \in (IF redisStatus = "ready" THEN BOOLEAN ELSE {FALSE})
    /\ options = DefaultOptions
    /\ strategies = DefaultStrategies
    /\ nflState = NoState
    /\ lastStateUpdate = 0
    /\ now = StartTime
    /\ invalidationRules = DefaultInvalidationRules
    /\ lastInvalidationRun = Undefined
    /\ scheduled = {}
    /\ lastFired = [t \in ScheduleTriggers |-> Undefined]
    /\ WarmerInit
    /\ lastSet = [k \in Keys |-> NoValue]
    /\ last = Idle

\* The manager state a TTL computation starts from.
Manager == [nflState |-> nflState, lastStateUpdate |-> lastStateUpdate, calls |-> 0]

\* Whether a Redis call made now would be attempted with flag, and so
\* which outcomes of it there are to consider.
RedisOutcomes(flag) == IF cacheEnabled /\ RedisUsableWith(flag) THEN BOOLEAN ELSE {FALSE}
GzipOutcomes(v) ==
    IF /\ cacheEnabled
       /\ service = "EnhancedCacheService"
       /\ shouldCompress(JSONstringify(v), options)
    THEN BOOLEAN ELSE {FALSE}

-----------------------------------------------------------------------------
(* Store operations.                                                       *)

\* get(key)
Get(k) ==
    /\ last = Idle
    /\ \E redisFails \in RedisOutcomes(useRedis) :
        LET g == get(k, redisFails) IN
        /\ useRedis' = g.useRedis
        /\ last' = [Idle EXCEPT !.op = "get", !.key = k, !.result = g.result,
                       !.source = g.source, !.raised = g.raised,
                       !.redisCalled = cacheEnabled /\ RedisUsable,
                       !.redisFailed = g.redisFailed, !.corrupt = g.corrupt]
        /\ UNCHANGED <<memoryCache, redisDb, redisStatus, lastSet, configVars, engineVars,
                       options, strategies, ttlVars, now>>

\* set(key, value, ttl)
Set(k, v, ttl) ==
    /\ last = Idle
    /\ \E redisFails \in RedisOutcomes(useRedis), gzipFails \in GzipOutcomes(v) :
        LET e == SetEffect(k, v, ttl, useRedis, redisFails, gzipFails) IN
        /\ memoryCache' = e.memoryCache
        /\ redisDb' = e.redisDb
        /\ useRedis' = e.useRedis
        /\ lastSet' = IF cacheEnabled THEN [lastSet EXCEPT ![k] = v] ELSE lastSet
        /\ last' = [Idle EXCEPT !.op = "set", !.key = k, !.value = v,
                       !.ttl = cacheTTL(ttl),
                       !.redisCalled = cacheEnabled /\ RedisUsable,
                       !.redisFailed = e.redisFailed]
        /\ UNCHANGED <<redisStatus, configVars, engineVars, options, strategies, ttlVars, now>>

\* del(key): not guarded by CACHE_ENABLED.
Del(k) ==
    /\ last = Idle
    /\ \E redisFails \in (IF RedisUsable THEN BOOLEAN ELSE {FALSE}) :
        /\ redisDb' = IF RedisUsable /\ ~redisFails
                      THEN [redisDb EXCEPT ![k] = NoSlot] ELSE redisDb
        /\ useRedis' = IF RedisUsable /\ redisFails THEN FALSE ELSE useRedis
        /\ memoryCache' = [memoryCache EXCEPT ![k] = NoSlot]
        /\ lastSet' = [lastSet EXCEPT ![k] = Deleted]
        /\ last' = [Idle EXCEPT !.op = "del", !.key = k,
                       !.redisCalled = RedisUsable,
                       !.redisFailed = RedisUsable /\ redisFails]
        /\ UNCHANGED <<redisStatus, configVars, engineVars, options, strategies, ttlVars, now>>

\* flush(): redisClient.flushdb() and memoryCache.flushAll().
Flush ==
    /\ last = Idle
    /\ \E redisFails \in (IF RedisUsable THEN BOOLEAN ELSE {FALSE}) :
        /\ redisDb' = IF RedisUsable /\ ~redisFails
                      THEN [k \in Keys |-> NoSlot] ELSE redisDb
        /\ useRedis' = IF RedisUsable /\ redisFails THEN FALSE ELSE useRedis
        /\ memoryCache' = [k \in Keys |-> NoSlot]
        /\ lastSet' = [k \in Keys |-> Deleted]
        /\ last' = [Idle EXCEPT !.op = "flush",
                       !.redisCalled = RedisUsable,
                       !.redisFailed = RedisUsable /\ redisFails]
        /\ UNCHANGED <<redisStatus, configVars, engineVars, options, strategies, ttlVars, now>>

\* Whether getNFLState would call the feed now.
NeedsFetch == nflState = NoState \/ now - lastStateUpdate > stateUpdateInterval
\* The feed answers worth telling apart: none when no call is made.
FeedChoices(S) == IF NeedsFetch THEN S ELSE {CHOOSE f \in S : TRUE}

\* wrap caching null under the key when the producer throws.
WrapTail_CachesFailure(op, k, g, outcome, r) ==
    IF g.result # Null THEN
        /\ useRedis' = g.useRedis
        /\ last' = [Idle EXCEPT !.op = op, !.key = k, !.result = g.result,
                       !.source = g.source, !.redisFailed = g.redisFailed,
                       !.corrupt = g.corrupt]
        /\ UNCHANGED <<memoryCache, redisDb, lastSet, ttlVars>>
    ELSE IF outcome = ProducerError THEN
        /\ useRedis' = g.useRedis
        /\ memoryCache' = [memoryCache EXCEPT ![k] = MemoryPayload(Null, r.ttl, FALSE)]
        /\ last' = [Idle EXCEPT !.op = op, !.key = k, !.source = g.source,
                       !.raised = "ProducerError", !.producer = "threw",
                       !.redisFailed = g.redisFailed, !.corrupt = g.corrupt]
        /\ UNCHANGED <<redisDb, lastSet, ttlVars>>
    ELSE
        \E redisFails \in RedisOutcomes(g.useRedis), gzipFails \in GzipOutcomes(outcome) :
            LET e == SetEffect(k, outcome, r.ttl, g.useRedis, redisFails, gzipFails) IN
            /\ memoryCache' = e.memoryCache
            /\ redisDb' = e.redisDb
            /\ useRedis' = e.useRedis
            /\ lastSet' = IF cacheEnabled THEN [lastSet EXCEPT ![k] = outcome]
                                          ELSE lastSet
            /\ nflState' = r.m.nflState
            /\ lastStateUpdate' = r.m.lastStateUpdate
            /\ last' = [Idle EXCEPT !.op = op, !.key = k, !.value = outcome,
                           !.result = outcome, !.source = g.source,
                           !.ttl = cacheTTL(r.ttl), !.producer = "returned",
                           !.redisFailed = g.redisFailed \/ e.redisFailed,
                           !.corrupt = g.corrupt, !.seen = r.seen,
                           !.optimal = r.optimal]

\* The part of wrap and smartWrap after the cache has been read (g): a hit
\* returns the cached value; on a miss the producer runs, and its value is
\* stored under ttlOf (a record [ttl, m, seen, optimal]) and returned.
WrapTail(op, k, g, outcome, r) ==
    IF g.result # Null THEN
        /\ useRedis' = g.useRedis
        /\ last' = [Idle EXCEPT !.op = op, !.key = k, !.result = g.result,
                       !.source = g.source, !.redisFailed = g.redisFailed,
                       !.corrupt = g.corrupt]
        /\ UNCHANGED <<memoryCache, redisDb, lastSet, ttlVars>>
    ELSE IF outcome = ProducerError THEN
        /\ useRedis' = g.useRedis
        /\ last' = [Idle EXCEPT !.op = op, !.key = k, !.source = g.source,
                       !.raised = "ProducerError", !.producer = "threw",
                       !.redisFailed = g.redisFailed, !.corrupt = g.corrupt]
        /\ UNCHANGED <<memoryCache, redisDb, lastSet, ttlVars>>
    ELSE
        \E redisFails \in RedisOutcomes(g.useRedis), gzipFails \in GzipOutcomes(outcome) :
            LET e == SetEffect(k, outcome, r.ttl, g.useRedis, redisFails, gzipFails) IN
            /\ memoryCache' = e.memoryCache
            /\ redisDb' = e.redisDb
            /\ useRedis' = e.useRedis
            /\ lastSet' = IF cacheEnabled THEN [lastSet EXCEPT ![k] = outcome]
                                          ELSE lastSet
            /\ nflState' = r.m.nflState
            /\ lastStateUpdate' = r.m.lastStateUpdate
            /\ last' = [Idle EXCEPT !.op = op, !.key = k, !.value = outcome,
                           !.result = outcome, !.source = g.source,
                           !.ttl = cacheTTL(r.ttl), !.producer = "returned",
                           !.redisFailed = g.redisFailed \/ e.redisFailed,
                           !.corrupt = g.corrupt, !.seen = r.seen,
                           !.optimal = r.optimal]

\* CacheService.wrap(key, fn, ttl); EnhancedCacheService has no wrap.
Wrap(k, outcome, ttl) ==
    /\ last = Idle
    /\ service = "CacheService"
    /\ \E redisFails \in RedisOutcomes(useRedis) :
          WrapTail("wrap", k, get(k, redisFails), outcome,
                   [ttl |-> ttl, m |-> Manager, seen |-> {}, optimal |-> 0])
    /\ UNCHANGED <<redisStatus, configVars, engineVars, options, strategies, now>>

\* smartWrap(key, fn, dataType, context)
SmartWrap(k, outcome, dataType, week, t) ==
    /\ last = Idle
    /\ \E redisFails \in RedisOutcomes(useRedis), feed \in FeedChoices(SmartFeeds) :
          WrapTail("smartWrap", k, get(k, redisFails), outcome,
                   getContextualTTL(strategies, dataType, week, Manager, now, t, feed))
    /\ UNCHANGED <<redisStatus, configVars, engineVars, options, strategies, now>>

\* smartSet(key, value, dataType, context)
SmartSet(k, v, dataType, week, t) ==
    /\ last = Idle
    /\ \E redisFails \in RedisOutcomes(useRedis), gzipFails \in GzipOutcomes(v),
       feed \in FeedChoices(SmartFeeds) :
        LET r == getContextualTTL(strategies, dataType, week, Manager, now, t, feed)
            e == SetEffect(k, v, r.ttl, useRedis, redisFails, gzipFails)
        IN  /\ memoryCache' = e.memoryCache
            /\ redisDb' = e.redisDb
            /\ useRedis' = e.useRedis
            /\ lastSet' = IF cacheEnabled THEN [lastSet EXCEPT ![k] = v] ELSE lastSet
            /\ nflState' = r.m.nflState
            /\ lastStateUpdate' = r.m.lastStateUpdate
            /\ last' = [Idle EXCEPT !.op = "smartSet", !.key = k, !.value = v,
                           !.ttl = cacheTTL(r.ttl), !.dataType = dataType,
                           !.week = week,
                           !.redisCalled = cacheEnabled /\ RedisUsable,
                           !.redisFailed = e.redisFailed, !.seen = r.seen,
                           !.optimal = r.optimal]
            /\ UNCHANGED <<redisStatus, configVars, engineVars, options, strategies, now>>

\* CompressionManager.updateOptions(partial)
updateOptions(opts, partial) ==
    [f \in DOMAIN opts |-> IF f \in DOMAIN partial THEN partial[f] ELSE opts[f]]

UpdateOptions(partial) ==
    /\ last = Idle
    /\ options' = updateOptions(options, partial)
    /\ last' = Idle
    /\ UNCHANGED <<tierVars, redisStatus, configVars, engineVars, strategies, ttlVars, now>>

-----------------------------------------------------------------------------
(* The environment of the store.                                           *)

\* A store that repeats its connection check when the client is ready again.
RedisStatusChange_Rechecks ==
    /\ last = Idle
    /\ redisStatus' = IF redisStatus = "ready" THEN "reconnecting" ELSE "ready"
    /\ useRedis' = (redisStatus' = "ready")
    /\ last' = Idle
    /\ UNCHANGED <<memoryCache, redisDb, lastSet, configVars, engineVars, options,
                   strategies, ttlVars, now>>

\* ioredis loses the connection and reconnects (retryStrategy): the status
\* leaves and regains "ready"; no call is made, so useRedis is not touched.
RedisStatusChange ==
    /\ last = Idle
    /\ redisStatus' = IF redisStatus = "ready" THEN "reconnecting" ELSE "ready"
    /\ last' = Idle
    /\ UNCHANGED <<tierVars, configVars, engineVars, options, strategies, ttlVars, now>>

\* Redis drops a key whose EX time has passed.
ExpireRedis(k) ==
    /\ last = Idle
    /\ redisDb[k].format # "none"
    /\ redisDb' = [redisDb EXCEPT ![k] = NoSlot]
    /\ lastSet' = [lastSet EXCEPT ![k] = NoValue]
    /\ last' = Idle
    /\ UNCHANGED <<memoryCache, useRedis, redisStatus, configVars, engineVars, options,
                   strategies, ttlVars, now>>

\* Whether the Redis entry of k was written by another client of the
\* database (the other store class).
Foreign(slot) ==
    /\ slot.format # "none"
    /\ slot.format # (IF service = "EnhancedCacheService" THEN "entry" ELSE "value")

\* node-cache drops a key whose ttl has passed.  A set writes Redis first
\* and the local tier next with the same ttl, so the local entry outlives
\* the Redis entry of the same set; it can go first only when the Redis
\* entry stems from another write with a longer ttl.
ExpireMemory(k) ==
    /\ last = Idle
    /\ memoryCache[k].format # "none"
    /\ \/ redisDb[k].format = "none"
       \/ Foreign(redisDb[k])
       \/ redisDb[k].ttl > memoryCache[k].ttl
    /\ memoryCache' = [memoryCache EXCEPT ![k] = NoSlot]
    /\ lastSet' = [lastSet EXCEPT ![k] = NoValue]
    /\ last' = Idle
    /\ UNCHANGED <<redisDb, useRedis, redisStatus, configVars, engineVars, options,
                   strategies, ttlVars, now>>

\* The other store class of the process writes k through the shared Redis
\* client (SleeperAPIClient's CacheService and the warmer's
\* EnhancedCacheService use the same keys), in its own format.
ForeignSet(k, v) ==
    /\ last = Idle
    /\ redisStatus = "ready"
    /\ redisDb' = [redisDb EXCEPT ![k] =
                      IF service = "EnhancedCacheService"
                      THEN JsonSlot(v, CACHE_DEFAULT_TTL)
                      ELSE EntrySlot(CacheEntry(compress(v, options, FALSE)),
                                     CACHE_DEFAULT_TTL)]
    /\ lastSet' = [lastSet EXCEPT ![k] = NoValue]
    /\ last' = Idle
    /\ UNCHANGED <<memoryCache, useRedis, redisStatus, configVars, engineVars, options,
                   strategies, ttlVars, now>>

-----------------------------------------------------------------------------
(* TTL policy engine operations.                                           *)

\* getContextualTTL(dataType, {week})
GetContextualTTL(dataType, week, t) ==
    /\ last = Idle
    /\ \E feed \in FeedChoices(Feeds) :
        LET r == getContextualTTL(strategies, dataType, week, Manager, now, t, feed) IN
        /\ nflState' = r.m.nflState
        /\ lastStateUpdate' = r.m.lastStateUpdate
        /\ last' = [Idle EXCEPT !.op = "getContextualTTL", !.dataType = dataType,
                       !.week = week, !.time = t, !.ttl = r.ttl, !.seen = r.seen,
                       !.optimal = r.optimal, !.fetches = r.m.calls]
        /\ UNCHANGED <<tierVars, redisStatus, configVars, engineVars, options, strategies, now>>

\* getOptimalTTL({dataType, currentTime})
GetOptimalTTL(dataType, t) ==
    /\ last = Idle
    /\ \E feed \in FeedChoices(Feeds) :
        LET r == getOptimalTTL(strategies, dataType, Manager, now, t, feed) IN
        /\ nflState' = r.m.nflState
        /\ lastStateUpdate' = r.m.lastStateUpdate
        /\ last' = [Idle EXCEPT !.op = "getOptimalTTL", !.dataType = dataType,
                       !.time = t, !.ttl = r.ttl, !.seen = r.seen,
                       !.optimal = r.ttl, !.fetches = r.m.calls]
        /\ UNCHANGED <<tierVars, redisStatus, configVars, engineVars, options, strategies, now>>

\* updateStrategy(dataType, partial)
UpdateStrategy(u) ==
    /\ last = Idle
    /\ strategies' = updateStrategy(strategies, u[1], u[2])
    /\ last' = Idle
    /\ UNCHANGED <<tierVars, redisStatus, configVars, engineVars, options, ttlVars, now>>

\* Time passes.
Tick ==
    /\ last = Idle
    /\ now + TickMinutes <= MaxTime
    /\ now' = now + TickMinutes
    /\ last' = Idle
    /\ UNCHANGED <<tierVars, redisStatus, configVars, engineVars, options, strategies, ttlVars>>

\* The caller takes the result of the operation that has returned.
Return ==
    /\ last # Idle
    /\ last' = Idle
    /\ UNCHANGED <<tierVars, redisStatus, configVars, engineVars, options, strategies,
                   ttlVars, now>>

-----------------------------------------------------------------------------
(* Invalidation engine: CacheInvalidator (cache invalidation), working on  *)
(* the EnhancedCacheService singleton.                                     *)

\* The text of a key as a RegExp reads it, words and digits as single
\* symbols (a league id digit by digit).
KeyText(k) ==
    CASE k = "state:league"       -> <<"state", ":", "league">>
      [] k = "state:nfl"          -> <<"state", ":", "nfl">>
      [] k = "bar:1"              -> <<"bar", ":", "1">>
      [] k = "foo:1"              -> <<"foo", ":", "1">>
      [] k = "matchups:1"         -> <<"matchups", ":", "1">>
      [] k = "players:trending:1" -> <<"players", ":", "trending", ":", "1">>
      [] k = "players:all:nfl"    -> <<"players", ":", "all", ":", "nfl">>
      [] k = "players:trending:nfl:add::" ->
             <<"players", ":", "trending", ":", "nfl", ":", "add", ":", ":">>
      [] k = "players:trending:nfl:drop::" ->
             <<"players", ":", "trending", ":", "nfl", ":", "drop", ":", ":">>
      [] k = "league:1"           -> <<"league", ":", "1">>
      [] k = "league:12"          -> <<"league", ":", "1", "2">>
      [] k = "matchups:12:3"      -> <<"matchups", ":", "1", "2", ":", "3">>
      [] k = "winners_bracket:12" -> <<"winners_", "bracket", ":", "1", "2">>
      [] k = "drafts:league:1"    -> <<"drafts", ":", "league", ":", "1">>
      [] k = "rosters:1"          -> <<"rosters", ":", "1">>
      [] k = "users:1"            -> <<"users", ":", "1">>

\* pattern.test(key) for a pattern /^text/ without flags, given as its
\* text; a leading ".*" lets the rest begin anywhere in the key.
test(pattern, key) ==
    IF pattern # <<>> /\ Head(pattern) = ".*"
    THEN \E i \in 1..(Len(KeyText(key)) + 1) :
            /\ i + Len(pattern) - 2 <= Len(KeyText(key))
            /\ SubSeq(KeyText(key), i, i + Len(pattern) - 2) = Tail(pattern)
    ELSE /\ Len(pattern) <= Len(KeyText(key))
         /\ SubSeq(KeyText(key), 1, Len(pattern)) = pattern

\* The tiers as an invalidation works on them.
Tiers == [memoryCache |-> memoryCache, redisDb |-> redisDb, useRedis |-> useRedis,
          lastSet |-> lastSet, count |-> 0]

\* How the Redis calls of one invalidation go is a record [failed, done]:
\* the del of key failed rejects (NoKey: none does) after those of the keys
\* in done went through.
NoKey == ""

\* invalidateByPattern deleting every key of memoryCache.keys().
invalidateByPattern_EveryKey(pattern, x, run) ==
    LET matching == {k \in Keys : x.memoryCache[k].format # "none"}
        usable == RedisUsableWith(x.useRedis)
        fails == usable /\ run.failed \in matching
        deleted == IF ~usable THEN {}
                   ELSE IF fails THEN (run.done \cap matching) \ {run.failed}
                   ELSE matching
    IN  [memoryCache |-> [k \in Keys |-> IF k \in matching THEN NoSlot
                                          ELSE x.memoryCache[k]],
         redisDb |-> [k \in Keys |-> IF k \in deleted THEN NoSlot ELSE x.redisDb[k]],
         useRedis |-> IF fails THEN FALSE ELSE x.useRedis,
         lastSet |-> [k \in Keys |-> IF k \in matching THEN Deleted ELSE x.lastSet[k]],
         count |-> Cardinality(matching)]

\* CacheInvalidator.invalidateByPattern on tiers x: every key of
\* memoryCache.keys() the pattern matches goes through
\* enhancedCacheService.del; count is the number returned.
invalidateByPattern(pattern, x, run) ==
    LET matching == {k \in Keys : x.memoryCache[k].format # "none" /\ test(pattern, k)}
        usable == RedisUsableWith(x.useRedis)
        fails == usable /\ run.failed \in matching
        deleted == IF ~usable THEN {}
                   ELSE IF fails THEN (run.done \cap matching) \ {run.failed}
                   ELSE matching
    IN  [memoryCache |-> [k \in Keys |-> IF k \in matching THEN NoSlot
                                          ELSE x.memoryCache[k]],
         redisDb |-> [k \in Keys |-> IF k \in deleted THEN NoSlot ELSE x.redisDb[k]],
         useRedis |-> IF fails THEN FALSE ELSE x.useRedis,
         lastSet |-> [k \in Keys |-> IF k \in matching THEN Deleted ELSE x.lastSet[k]],
         count |-> Cardinality(matching)]

\* processInvalidationRules giving up at the first rule that meets a failure.
RECURSIVE processInvalidationRules_StopsOnFailure(_, _, _)
processInvalidationRules_StopsOnFailure(rules, x, run) ==
    IF rules = <<>> THEN x
    ELSE CHOOSE z \in
            {IF x.useRedis /\ ~y.useRedis THEN y
             ELSE processInvalidationRules_StopsOnFailure(Tail(rules), y, run) :
                y \in {invalidateByPattern(Head(rules).pattern, x, run)}} : TRUE

\* CacheInvalidator.processInvalidationRules: the rules one after another;
\* count is that of the last rule.
RECURSIVE processInvalidationRules(_, _, _)
processInvalidationRules(rules, x, run) ==
    IF rules = <<>> THEN x
    ELSE CHOOSE z \in
            {processInvalidationRules(Tail(rules), y, run) :
                y \in {invalidateByPattern(Head(rules).pattern, x, run)}} : TRUE

\* rules.filter(pred), for the three filters of invalidateByTrigger.
RECURSIVE RulesWith(_, _, _)
RulesWith(rules, trigger, priorities) ==
    IF rules = <<>> THEN <<>>
    ELSE LET r == Head(rules)
             rest == RulesWith(Tail(rules), trigger, priorities)
         IN  IF trigger \in r.triggers /\ r.priority \in priorities
             THEN <<r>> \o rest ELSE rest

Priorities == {"immediate", "scheduled", "batch"}

\* invalidateByTrigger deferring the immediate rules with the scheduled.
invalidateByTrigger_DefersAll(trigger, v, clock, run) ==
    LET matchingRules == RulesWith(invalidationRules, trigger, Priorities)
        scheduledRules == RulesWith(invalidationRules, trigger,
                                    {"immediate", "scheduled"})
    IN  IF matchingRules = <<>> THEN v
        ELSE [tiers |-> v.tiers,
              scheduled |-> IF scheduledRules # <<>>
                            THEN v.scheduled \cup {scheduledRules}
                            ELSE v.scheduled,
              lastInvalidationRun |-> clock]

\* CacheInvalidator.invalidateByTrigger at time clock on invalidator state
\* v = [tiers, lastInvalidationRun, scheduled].
invalidateByTrigger(trigger, v, clock, run) ==
    LET matchingRules == RulesWith(invalidationRules, trigger, Priorities)
        immediateRules == RulesWith(invalidationRules, trigger, {"immediate"})
        scheduledRules == RulesWith(invalidationRules, trigger, {"scheduled"})
    IN  IF matchingRules = <<>> THEN v
        ELSE [tiers |-> processInvalidationRules(immediateRules, v.tiers, run),
              scheduled |-> IF scheduledRules # <<>>
                            THEN v.scheduled \cup {scheduledRules}
                            ELSE v.scheduled,
              lastInvalidationRun |-> clock]

\* The Redis runs worth telling apart: only keys the local tier holds are
\* deleted, and no run fails when no Redis call is made.
RedisRunChoices ==
    LET live == {k \in Keys : memoryCache[k].format # "none"} IN
    {[failed |-> NoKey, done |-> {}]} \cup
    UNION {{[failed |-> k, done |-> d] : d \in SUBSET (live \ {k})} :
              k \in (IF RedisUsable THEN live ELSE {})}

\* invalidateByPattern(pattern)
InvalidateByPattern(pattern) ==
    /\ last = Idle
    /\ \E run \in RedisRunChoices :
        LET x == invalidateByPattern(pattern, Tiers, run) IN
        /\ memoryCache' = x.memoryCache
        /\ redisDb' = x.redisDb
        /\ useRedis' = x.useRedis
        /\ lastSet' = x.lastSet
        /\ last' = [Idle EXCEPT !.op = "invalidateByPattern", !.pattern = pattern,
                       !.count = x.count]
    /\ UNCHANGED <<redisStatus, configVars, warmerVars, managerVars, callVars, targetedVars, invalidatorVars, options, strategies,
                   ttlVars, now>>

\* The patterns invalidateLeague builds from leagueId (given as its digits).
LeaguePatterns(leagueId) ==
    << <<"league", ":">> \o leagueId,
       <<"rosters", ":">> \o leagueId,
       <<"users", ":">> \o leagueId,
       <<"matchups", ":">> \o leagueId \o <<":">>,
       <<"transactions", ":">> \o leagueId \o <<":">>,
       <<".*", "bracket", ":">> \o leagueId >>

\* The loop of invalidateLeague over its patterns: the tiers it leaves,
\* count the sum of what invalidateByPattern returned.
RECURSIVE invalidatePatterns(_, _, _)
invalidatePatterns(patterns, x, run) ==
    IF patterns = <<>> THEN [x EXCEPT !.count = 0]
    ELSE CHOOSE z \in
            UNION {{[r EXCEPT !.count = @ + y.count] :
                       r \in {invalidatePatterns(Tail(patterns), y, run)}} :
                   y \in {invalidateByPattern(Head(patterns), x, run)}} : TRUE

\* CacheInvalidator.invalidateLeague(leagueId)
invalidateLeague(leagueId, x, run) ==
    invalidatePatterns(LeaguePatterns(leagueId), x, run)

\* invalidateLeague(leagueId)
InvalidateLeague(leagueId) ==
    /\ last = Idle
    /\ \E run \in RedisRunChoices :
        \E x \in {invalidateLeague(leagueId, Tiers, run)} :
        /\ memoryCache' = x.memoryCache
        /\ redisDb' = x.redisDb
        /\ useRedis' = x.useRedis
        /\ lastSet' = x.lastSet
        /\ last' = [Idle EXCEPT !.op = "invalidateLeague", !.pattern = leagueId,
                       !.count = x.count]
    /\ UNCHANGED <<redisStatus, configVars, warmerVars, managerVars, callVars, targetedVars, invalidatorVars, options, strategies,
                   ttlVars, now>>

\* What the invalidator holds besides its rules.
Invalidator == [tiers |-> Tiers, scheduled |-> scheduled,
                lastInvalidationRun |-> lastInvalidationRun]

\* invalidateByTrigger(trigger)
InvalidateByTrigger(trigger) ==
    /\ last = Idle
    /\ \E run \in RedisRunChoices :
        LET v == invalidateByTrigger(trigger, Invalidator, now, run) IN
        /\ memoryCache' = v.tiers.memoryCache
        /\ redisDb' = v.tiers.redisDb
        /\ useRedis' = v.tiers.useRedis
        /\ lastSet' = v.tiers.lastSet
        /\ scheduled' = v.scheduled
        /\ lastInvalidationRun' = v.lastInvalidationRun
        /\ last' = [Idle EXCEPT !.op = "invalidateByTrigger", !.trigger = trigger]
    /\ UNCHANGED <<redisStatus, configVars, warmerVars, managerVars, callVars, targetedVars, invalidationRules,
                   lastFired, options, strategies, ttlVars, now>>

\* The callback of setTimeout(() => processInvalidationRules(scheduledRules),
\* 1000) runs, as soon as the event loop is free: also before the caller of
\* the operation that has just returned has taken its result.  last tells
\* whether a Redis call of the callback failed and on which key.
RunScheduled(rules) ==
    /\ rules \in scheduled
    /\ scheduled' = scheduled \ {rules}
    /\ \E run \in RedisRunChoices :
        \E x \in {processInvalidationRules(rules, Tiers, run)} :
            LET failed == useRedis /\ ~x.useRedis IN
            /\ memoryCache' = x.memoryCache
            /\ redisDb' = x.redisDb
            /\ useRedis' = x.useRedis
            /\ lastSet' = x.lastSet
            /\ last' = [Idle EXCEPT !.op = "processInvalidationRules",
                           !.key = IF failed THEN run.failed ELSE NoKey,
                           !.redisFailed = failed, !.count = x.count]
    /\ UNCHANGED <<redisStatus, configVars, warmerVars, managerVars, callVars, targetedVars, invalidationRules, lastInvalidationRun,
                   lastFired, options, strategies, ttlVars, now>>

\* addInvalidationRule(rule)
AddInvalidationRule(rule) ==
    /\ last = Idle
    /\ Len(invalidationRules) < Len(DefaultInvalidationRules) + MaxOperatorRules
    /\ invalidationRules' = Append(invalidationRules, rule)
    /\ last' = Idle
    /\ UNCHANGED <<tierVars, redisStatus, configVars, warmerVars, managerVars, callVars, targetedVars,
                   lastInvalidationRun, scheduled, lastFired, options, strategies,
                   ttlVars, now>>

\* new Date(clock): clock counts minutes from a Sunday, 00:00.
getDay(clock) == (clock \div 1440) % 7
getHours(clock) == (clock % 1440) \div 60
getMinutes(clock) == clock % 60

\* SmartTTLManager.getCacheStats: [nflState, isGameTime, m].
getCacheStats(m, clock, feed) ==
    LET m1 == getNFLState(m, clock, feed)
        m2 == getNFLState(m1, clock, feed)
    IN  [nflState |-> m1.nflState,
         isGameTime |-> isGameTime(m2.nflState, <<getDay(clock), getHours(clock)>>),
         m |-> m2]

\* recentlyTriggered counting half the window.
recentlyTriggered_HalfWindow(trigger, within, lastRun, clock) ==
    IF lastRun = Undefined THEN FALSE ELSE clock - lastRun < within \div 2

\* CacheInvalidator.recentlyTriggered(_trigger, withinMs), within in minutes.
recentlyTriggered(trigger, within, lastRun, clock) ==
    IF lastRun = Undefined THEN FALSE ELSE clock - lastRun < within

\* CacheInvalidator.checkScheduleBasedInvalidation after its getCacheStats
\* call: [v, fired], the invalidator state it leaves and the triggers it
\* has passed to invalidateByTrigger.
checkScheduleBasedInvalidation(v, stats, clock, run) ==
    LET dayOfWeek == getDay(clock)
        hour == getHours(clock)
        minute == getMinutes(clock)
        fire(trigger, cond, s) ==
            IF cond THEN [v |-> invalidateByTrigger(trigger, s.v, clock, run),
                          fired |-> s.fired \cup {trigger}]
                    ELSE s
        recently(trigger, within, s) ==
            recentlyTriggered(trigger, within, s.v.lastInvalidationRun, clock)
        s0 == [v |-> v, fired |-> {}]
        s1 == fire("week_change", dayOfWeek = 2 /\ hour = 1 /\ minute < 5, s0)
        s2 == fire("waiver_period",
                   /\ (dayOfWeek = 2 /\ hour >= 22) \/ (dayOfWeek = 3 /\ hour <= 6)
                   /\ ~recently("waiver_period", 12 * 60, s1), s1)
        s3 == fire("game_day",
                   /\ dayOfWeek \in {0, 1, 4}
                   /\ ~recently("game_day", 6 * 60, s2), s2)
        s4 == fire("game_start",
                   /\ stats.nflState.season_type \in {"regular", "post"}
                   /\ stats.isGameTime
                   /\ ~recently("game_start", 60, s3), s3)
    IN  IF stats.nflState = NoState THEN s0 ELSE s4

\* One periodic check of scheduleAutomaticInvalidation's setInterval.
CheckScheduleBasedInvalidation ==
    /\ last = Idle
    /\ \E run \in RedisRunChoices, feed \in FeedChoices(ScheduleFeeds) :
        LET stats == getCacheStats(Manager, now, feed)
            c == checkScheduleBasedInvalidation(Invalidator, stats, now, run)
        IN  /\ nflState' = stats.m.nflState
            /\ lastStateUpdate' = stats.m.lastStateUpdate
            /\ memoryCache' = c.v.tiers.memoryCache
            /\ redisDb' = c.v.tiers.redisDb
            /\ useRedis' = c.v.tiers.useRedis
            /\ lastSet' = c.v.tiers.lastSet
            /\ scheduled' = c.v.scheduled
            /\ lastInvalidationRun' = c.v.lastInvalidationRun
            /\ lastFired' = [t \in ScheduleTriggers |->
                                IF t \in c.fired THEN now ELSE lastFired[t]]
            /\ last' = [Idle EXCEPT !.op = "checkScheduleBasedInvalidation",
                           !.fired = c.fired]
    /\ UNCHANGED <<redisStatus, configVars, warmerVars, managerVars, callVars, targetedVars, invalidationRules, options, strategies,
                   now>>

\* The interval of the periodic check passes.
ScheduleTick ==
    /\ last = Idle
    /\ \E start \in ScheduleStartTimes :
          /\ start <= now
          /\ now + ScheduleInterval <= start + ScheduleMaxElapsed
    /\ now' = now + ScheduleInterval
    /\ last' = Idle
    /\ UNCHANGED <<tierVars, redisStatus, configVars, engineVars, options,
                   strategies, ttlVars>>

-----------------------------------------------------------------------------
(* Cache warmer: CacheWarmer (manager.ts), working on the                  *)
(* EnhancedCacheService singleton.  A cycle is a chain of steps: warmCache *)
(* builds the task list and starts the first batch; every task of the      *)
(* running batch checks the store and, on a miss, starts its producer; the *)
(* producer returns or the task's 15 s timer fires first; when every task  *)
(* of the batch has a result the next batch starts or the cycle ends.      *)

\* const concurrencyLimit = 3
concurrencyLimit == 3

\* The tasks getWarmingTasks pushes, in its order.
WarmingTasks ==
    << [key |-> "state:nfl", dataType |-> "nfl_state", priority |-> "high"],
       [key |-> "players:all:nfl", dataType |-> "player", priority |-> "high"],
       [key |-> "players:trending:nfl:add::", dataType |-> "trending",
        priority |-> "medium"],
       [key |-> "players:trending:nfl:drop::", dataType |-> "trending",
        priority |-> "medium"] >>

\* getWarmingTasks: when its own sleeperAPI.getNFLState() call rejects, the
\* catch returns what was pushed before it, the first task alone.
getWarmingTasks(apiFails) ==
    IF apiFails THEN SubSeq(WarmingTasks, 1, 1) ELSE WarmingTasks

\* tasks.sort by priorityOrder, descending (Array.prototype.sort is stable).
priorityOrder(p) == CASE p = "high" -> 3 [] p = "medium" -> 2 [] p = "low" -> 1
HasPriority(n, task) == priorityOrder(task.priority) = n
\* The sort putting the lowest priority first.
sortedTasks_Ascending(ts) ==
    SelectSeq(ts, LAMBDA task : HasPriority(1, task))
        \o SelectSeq(ts, LAMBDA task : HasPriority(2, task))
        \o SelectSeq(ts, LAMBDA task : HasPriority(3, task))

sortedTasks(ts) ==
    SelectSeq(ts, LAMBDA task : HasPriority(3, task))
        \o SelectSeq(ts, LAMBDA task : HasPriority(2, task))
        \o SelectSeq(ts, LAMBDA task : HasPriority(1, task))

\* tasks.slice(i, i + concurrencyLimit), as the indices (from 1) it holds.
Batch == {j \in 1..Len(tasks) : batchStart < j /\ j <= batchStart + concurrencyLimit}

\* The check never finding an entry.
isWarm_Never(existing) == FALSE

\* existing !== null
isWarm(existing) == existing # Null

\* warmCache past its warmingInProgress check: the task list is built and
\* sorted, the counters are reset and the first batch starts.
StartCycle(apiFails) ==
    LET ts == sortedTasks(getWarmingTasks(apiFails)) IN
    /\ warmingInProgress' = TRUE
    /\ tasks' = ts
    /\ warmingStats' = [totalTasks |-> Len(ts), completedTasks |-> 0,
                        failedTasks |-> 0]
    /\ batchStart' = 0
    /\ taskState' = [j \in 1..Len(ts) |-> "waiting"]
    /\ warmLog' = [warmLog EXCEPT !.called = FALSE, !.recalled = FALSE,
                                  !.current = FALSE]
    /\ UNCHANGED <<lastWarmingTime, abandoned>>

\* warmCache(): returns at once while a cycle is running; otherwise builds
\* and sorts the task list, resets the counters and starts the first batch.
\* Cycles are minutes apart and a producer settles within the API client's
\* request timeout, so none of the cycle before is still running.
WarmCache ==
    /\ last = Idle
    /\ abandoned = {}
    /\ IF warmingInProgress THEN
           /\ last' = [Idle EXCEPT !.op = "warmCache", !.source = "skipped"]
           /\ UNCHANGED warmerVars
       ELSE
           /\ \E apiFails \in BOOLEAN : StartCycle(apiFails)
           /\ last' = Idle
    /\ UNCHANGED <<tierVars, redisStatus, configVars, invalidatorVars, managerVars, callVars, targetedVars,
                   options, strategies, ttlVars, now>>

\* setInterval(..., 10 * 60 * 1000), 30 * 60 * 1000 and 2 * 60 * 60 * 1000
\* of scheduleWarming, in minutes.
WarmingCheckMinutes == 10
SeasonWarmingInterval == 30
OffSeasonWarmingInterval == 120

\* The interval scheduleWarming takes from the snapshot getCacheStats gave.
warmingInterval(state) ==
    IF state.season_type = "regular" \/ state.season_type = "post"
    THEN SeasonWarmingInterval ELSE OffSeasonWarmingInterval

\* A scheduler callback that starts a cycle at every check.
ScheduledWarmingCheck_EveryCheck(feed, apiFails) ==
    LET clock == now + WarmingCheckMinutes
        state == getCacheStats(Manager, clock, feed)
        interval == warmingInterval(state.nflState)
    IN  /\ last = Idle
        /\ clock <= WarmScheduleEnd
        /\ now' = clock
        /\ nflState' = state.m.nflState
        /\ lastStateUpdate' = state.m.lastStateUpdate
        /\ IF ~warmingInProgress THEN
               /\ StartCycle(apiFails)
               /\ lastScheduled' = [start |-> clock, since |-> lastWarmingTime,
                                    interval |-> interval,
                                    phase |-> state.nflState.season_type,
                                    previous |-> lastScheduled.start]
           ELSE UNCHANGED <<warmerVars, lastScheduled>>
        /\ last' = Idle
        /\ UNCHANGED <<tierVars, redisStatus, configVars, invalidatorVars, managerVars,
                       targetedVars, calls, rpc, options, strategies>>

\* The callback of scheduleWarming, ten minutes after the one before:
\* getCacheStats, the interval of the phase it reports, and warmCache when
\* that long has passed since lastWarmingTime (since new Date(0) when no
\* cycle has completed); warmCache returns at once while a cycle is running.
ScheduledWarmingCheck(feed, apiFails) ==
    LET clock == now + WarmingCheckMinutes
        state == getCacheStats(Manager, clock, feed)
        interval == warmingInterval(state.nflState)
        lastWarming == IF lastWarmingTime # Undefined THEN lastWarmingTime ELSE 0
    IN  /\ last = Idle
        /\ clock <= WarmScheduleEnd
        /\ now' = clock
        /\ nflState' = state.m.nflState
        /\ lastStateUpdate' = state.m.lastStateUpdate
        /\ IF clock - lastWarming >= interval /\ ~warmingInProgress THEN
               /\ StartCycle(apiFails)
               /\ lastScheduled' = [start |-> clock, since |-> lastWarmingTime,
                                    interval |-> interval,
                                    phase |-> state.nflState.season_type,
                                    previous |-> lastScheduled.start]
           ELSE UNCHANGED <<warmerVars, lastScheduled>>
        /\ last' = Idle
        /\ UNCHANGED <<tierVars, redisStatus, configVars, invalidatorVars, managerVars,
                       targetedVars, calls, rpc, options, strategies>>

\* warmCache() up to its await of getWarmingTasks, whose own
\* sleeperAPI.getNFLState() call is in flight: a call made while a cycle is
\* running returns at once and changes nothing; otherwise the flag is set
\* and no task list exists yet.
BeginWarmCache ==
    /\ last = Idle
    /\ IF warmingInProgress THEN
           /\ last' = Idle
           /\ UNCHANGED warmerVars
       ELSE
           /\ warmingInProgress' = TRUE
           /\ tasks' = <<>>
           /\ taskState' = <<>>
           /\ batchStart' = 0
           /\ last' = Idle
           /\ UNCHANGED <<lastWarmingTime, warmingStats, abandoned, warmLog>>
    /\ UNCHANGED <<tierVars, redisStatus, configVars, invalidatorVars, managerVars, callVars, targetedVars,
                   options, strategies, ttlVars, now>>

\* The sleeperAPI.getNFLState() call of getWarmingTasks settles, with an
\* answer or with a rejection (an error, or the request timeout of the
\* API client): warmCache builds and sorts the task list, resets the
\* counters and starts the first batch.
FeedCallSettles(apiFails) ==
    /\ last = Idle
    /\ warmingInProgress
    /\ tasks = <<>>
    /\ StartCycle(apiFails)
    /\ last' = Idle
    /\ UNCHANGED <<tierVars, redisStatus, configVars, invalidatorVars, managerVars, callVars, targetedVars,
                   options, strategies, ttlVars, now>>

\* A task of the running batch up to the start of its producer:
\* enhancedCacheService.get(task.key), and on a miss smartWrap's own get
\* and the call of task.fn.
TaskCheck(j) ==
    /\ last = Idle
    /\ warmingInProgress
    /\ j \in Batch
    /\ taskState[j] = "waiting"
    /\ \E redisFails \in RedisOutcomes(useRedis) :
        LET existing == get(tasks[j].key, redisFails) IN
        IF isWarm(existing.result) THEN
            /\ useRedis' = existing.useRedis
            /\ taskState' = [taskState EXCEPT ![j] = "success"]
            /\ UNCHANGED warmLog
        ELSE
            \E again \in RedisOutcomes(existing.useRedis) :
                /\ useRedis' = IF again THEN FALSE ELSE existing.useRedis
                /\ taskState' = [taskState EXCEPT ![j] = "producing"]
                /\ warmLog' = [warmLog EXCEPT
                                  !.called = TRUE,
                                  !.recalled = @ \/ tasks[j].key \in warmLog.prevKeys]
    /\ last' = Idle
    /\ UNCHANGED <<memoryCache, redisDb, lastSet, redisStatus, configVars,
                   invalidatorVars, managerVars, callVars, targetedVars, warmingInProgress, lastWarmingTime, warmingStats,
                   tasks, batchStart, abandoned, options, strategies, ttlVars, now>>

\* The rest of smartWrap once the producer has settled: a value is stored
\* under the contextual TTL (the tasks carry no context), a rejection is
\* rethrown and nothing is stored.
ProducerSettles(k, dataType, outcome) ==
    IF outcome = ProducerError THEN UNCHANGED <<tierVars, ttlVars>>
    ELSE
        \E t \in WarmTimes, feed \in FeedChoices(SmartFeeds) :
            LET r == getContextualTTL(strategies, dataType, Undefined, Manager, now,
                                      t, feed)
            IN  \E redisFails \in RedisOutcomes(useRedis),
                   gzipFails \in GzipOutcomes(outcome) :
                    LET e == SetEffect(k, outcome, r.ttl, useRedis, redisFails,
                                       gzipFails)
                    IN  /\ memoryCache' = e.memoryCache
                        /\ redisDb' = e.redisDb
                        /\ useRedis' = e.useRedis
                        /\ lastSet' = IF cacheEnabled
                                      THEN [lastSet EXCEPT ![k] = outcome]
                                      ELSE lastSet
                        /\ nflState' = r.m.nflState
                        /\ lastStateUpdate' = r.m.lastStateUpdate

\* The producer of a task settles before the task's timer fires.
ProducerReturn(j, outcome) ==
    /\ last = Idle
    /\ warmingInProgress
    /\ j \in Batch
    /\ taskState[j] = "producing"
    /\ ProducerSettles(tasks[j].key, tasks[j].dataType, outcome)
    /\ taskState' = [taskState EXCEPT ![j] =
                        IF outcome = ProducerError THEN "failed" ELSE "success"]
    /\ last' = Idle
    /\ UNCHANGED <<redisStatus, configVars, invalidatorVars, managerVars, callVars, targetedVars, warmingInProgress,
                   lastWarmingTime, warmingStats, tasks, batchStart, abandoned,
                   warmLog, options, strategies, now>>

\* The timer firing and the task recorded as a success.
TaskTimeout_CountsSuccess(j) ==
    /\ last = Idle
    /\ warmingInProgress
    /\ j \in Batch
    /\ taskState[j] = "producing"
    /\ taskState' = [taskState EXCEPT ![j] = "success"]
    /\ abandoned' = abandoned \cup {tasks[j].key}
    /\ last' = Idle
    /\ UNCHANGED <<tierVars, redisStatus, configVars, invalidatorVars, managerVars, callVars, targetedVars,
                   warmingInProgress, lastWarmingTime, warmingStats, tasks,
                   batchStart, warmLog, options, strategies, ttlVars, now>>

\* The timer of a task that never fires.
TaskTimeout_NeverFires(j) ==
    /\ FALSE
    /\ UNCHANGED vars

\* The 15 s timer of a task fires first: Promise.race rejects, the task is
\* recorded as failed, and smartWrap with its producer runs on.
TaskTimeout(j) ==
    /\ last = Idle
    /\ warmingInProgress
    /\ j \in Batch
    /\ taskState[j] = "producing"
    /\ taskState' = [taskState EXCEPT ![j] = "failed"]
    /\ abandoned' = abandoned \cup {tasks[j].key}
    /\ last' = Idle
    /\ UNCHANGED <<tierVars, redisStatus, configVars, invalidatorVars, managerVars, callVars, targetedVars,
                   warmingInProgress, lastWarmingTime, warmingStats, tasks,
                   batchStart, warmLog, options, strategies, ttlVars, now>>

\* `league:${leagueId}`, `rosters:${leagueId}`, `users:${leagueId}`
leagueKey(category, leagueId) ==
    CASE leagueId = "1" ->
        CASE category = "league" -> "league:1"
          [] category = "rosters" -> "rosters:1"
          [] category = "users" -> "users:1"

\* The tasks warmLeagueData pushes for leagueIds when no week is given.
RECURSIVE leagueTasks(_)
leagueTasks(leagueIds) ==
    IF leagueIds = <<>> THEN <<>>
    ELSE << [key |-> leagueKey("league", Head(leagueIds)), dataType |-> "league",
             priority |-> "high"],
            [key |-> leagueKey("rosters", Head(leagueIds)), dataType |-> "roster",
             priority |-> "high"],
            [key |-> leagueKey("users", Head(leagueIds)), dataType |-> "user",
             priority |-> "medium"] >> \o leagueTasks(Tail(leagueIds))

\* The dataType of the task that warms k.
DataTypeOf(k) ==
    LET known == WarmingTasks \o leagueTasks(<<"1">>) IN
    known[CHOOSE j \in 1..Len(known) : known[j].key = k].dataType

\* A producer that outlived its task's timer settles; smartWrap stores its
\* value as it would have.
AbandonedReturn(k, outcome) ==
    /\ last = Idle
    /\ k \in abandoned
    /\ ProducerSettles(k, DataTypeOf(k), outcome)
    /\ abandoned' = abandoned \ {k}
    /\ last' = Idle
    /\ UNCHANGED <<redisStatus, configVars, invalidatorVars, managerVars, callVars, targetedVars, warmingInProgress,
                   lastWarmingTime, warmingStats, tasks, batchStart, taskState,
                   warmLog, options, strategies, now>>

\* Promise.allSettled of the batch resolves: the next batch starts, or
\* executeBatched returns and warmCache records the cycle; an emergencyReset
\* that awaited the cycle returns success.
BatchEnd ==
    /\ last = Idle
    /\ warmingInProgress
    /\ tasks # <<>>
    /\ \A j \in Batch : taskState[j] \in {"success", "failed"}
    /\ IF batchStart + concurrencyLimit < Len(tasks) THEN
           /\ batchStart' = batchStart + concurrencyLimit
           /\ last' = Idle
           /\ UNCHANGED <<warmingInProgress, lastWarmingTime, warmingStats, warmLog,
                          resetPending>>
       ELSE
           LET completed == {j \in 1..Len(tasks) : taskState[j] = "success"}
               failed == {j \in 1..Len(tasks) : taskState[j] = "failed"}
           IN  /\ warmingStats' = [warmingStats EXCEPT
                                      !.completedTasks = Cardinality(completed),
                                      !.failedTasks = Cardinality(failed)]
               /\ lastWarmingTime' = now
               /\ warmingInProgress' = FALSE
               /\ warmLog' = [called |-> FALSE, recalled |-> FALSE,
                              prevKeys |-> {tasks[j].key : j \in 1..Len(tasks)},
                              prevClean |-> failed = {},
                              disturbed |-> warmLog.current,
                              current |-> warmLog.current]
               /\ resetPending' = FALSE
               /\ last' = IF resetPending
                          THEN [Idle EXCEPT !.op = "emergencyReset",
                                            !.source = "success"]
                          ELSE [Idle EXCEPT !.op = "warmCache",
                                            !.source = "completed"]
               /\ UNCHANGED batchStart
    /\ UNCHANGED <<tierVars, redisStatus, configVars, invalidatorVars, targetedVars, callVars, tasks,
                   taskState, abandoned, options, strategies, ttlVars, now>>

-----------------------------------------------------------------------------
(* Calls that overlap.  A set or wrap call is followed through its awaits: *)
(* the gzip of compress, the Redis SET, the producer.  A call record holds *)
(* where the call stands (phase), what it will write to the local tier     *)
(* (slot; for optimizeCache whether it will enable compression: enable),   *)
(* whether its Redis SET rejects (failed), the order in which the  *)
(* Redis commands were sent (sent), for a wrap whether it found nothing    *)
(* (missed), what its producer returned (produced) and what the caller     *)
(* gets (result).                                                          *)

NewCall(op, k, v, ttl) ==
    [op |-> op, key |-> k, value |-> v, ttl |-> ttl, phase |-> "called",
     slot |-> NoSlot, failed |-> FALSE, sent |-> 0, missed |-> FALSE,
     produced |-> NoValue, result |-> NoValue, enable |-> FALSE]

\* compress awaits gzip only for a value that shouldCompress accepts; for
\* any other value set goes on without leaving the event loop.
WillGzip(v) ==
    /\ service = "EnhancedCacheService"
    /\ shouldCompress(JSONstringify(v), options)

\* Redis answers the commands of the connection in the order they were sent.
NextSent ==
    1 + Max(0, CHOOSE n \in {0} \cup {calls[i].sent : i \in DOMAIN calls} :
                   \A i \in DOMAIN calls : calls[i].sent <= n)

\* set from the return of compress to its next await or its end: with
\* Redis in use the SET is sent (Redis applies it unless it rejects) and
\* the local write waits for the answer; otherwise the local tier is
\* written at once.
AfterCompress(call, gzipFails, redisFails) ==
    LET slot == MemoryPayload(call.value, call.ttl, gzipFails) IN
    IF RedisUsable
    THEN [call |-> [call EXCEPT !.phase = "redis", !.slot = slot,
                                !.failed = redisFails, !.sent = NextSent],
          memoryCache |-> memoryCache,
          redisDb |-> IF redisFails THEN redisDb
                      ELSE [redisDb EXCEPT ![call.key] =
                               RedisPayload(call.value, call.ttl, gzipFails)],
          lastSet |-> lastSet]
    ELSE [call |-> [call EXCEPT !.phase = "done", !.slot = slot,
                                !.result = call.produced],
          memoryCache |-> [memoryCache EXCEPT ![call.key] = slot],
          redisDb |-> redisDb,
          lastSet |-> [lastSet EXCEPT ![call.key] = call.value]]

\* set(k, v, ttl) is called: up to its first await that leaves the event
\* loop.
SetCalled(k, v, ttl) ==
    /\ cacheEnabled
    /\ Len(calls) < MaxCalls
    /\ IF WillGzip(v) THEN
           /\ calls' = Append(calls, [NewCall("set", k, v, ttl) EXCEPT
                                        !.phase = "compressing"])
           /\ UNCHANGED <<memoryCache, redisDb, lastSet>>
       ELSE
           \E redisFails \in RedisOutcomes(useRedis) :
               \E e \in {AfterCompress(NewCall("set", k, v, ttl), FALSE, redisFails)} :
                   /\ calls' = Append(calls, e.call)
                   /\ memoryCache' = e.memoryCache
                   /\ redisDb' = e.redisDb
                   /\ lastSet' = e.lastSet
    /\ UNCHANGED <<useRedis, redisStatus, configVars, invalidatorVars, warmerVars,
                   managerVars, targetedVars, lastScheduled, rpc, options, strategies, ttlVars, now, last>>

\* The gzip of a call settles and set goes on.
CompressSettles(i, gzipFails) ==
    /\ calls[i].phase = "compressing"
    /\ \E redisFails \in RedisOutcomes(useRedis) :
        \E e \in {AfterCompress(calls[i], gzipFails, redisFails)} :
            /\ calls' = [calls EXCEPT ![i] = e.call]
            /\ memoryCache' = e.memoryCache
            /\ redisDb' = e.redisDb
            /\ lastSet' = e.lastSet
    /\ UNCHANGED <<useRedis, redisStatus, configVars, invalidatorVars, warmerVars,
                   managerVars, targetedVars, lastScheduled, rpc, options, strategies, ttlVars, now, last>>

\* The answer to the Redis SET of a call arrives: a rejection clears
\* useRedis; the local tier is written and set returns.
RedisReplies(i) ==
    /\ calls[i].phase = "redis"
    /\ \A j \in DOMAIN calls : calls[j].phase = "redis" => calls[i].sent <= calls[j].sent
    /\ useRedis' = IF calls[i].failed THEN FALSE ELSE useRedis
    /\ memoryCache' = [memoryCache EXCEPT ![calls[i].key] = calls[i].slot]
    /\ lastSet' = [lastSet EXCEPT ![calls[i].key] = calls[i].value]
    /\ calls' = [calls EXCEPT ![i].phase = "done", ![i].result = calls[i].produced]
    /\ UNCHANGED <<redisDb, redisStatus, configVars, invalidatorVars, warmerVars,
                   managerVars, targetedVars, lastScheduled, rpc, options, strategies, ttlVars, now, last>>

\* A wrap call that finds another call's producer running and waits for it.
WrapCalled_SingleFlight(op, k, ttl) ==
    /\ cacheEnabled
    /\ Len(calls) < MaxCalls
    /\ \E redisFails \in RedisOutcomes(useRedis) :
        LET existing == get(k, redisFails)
            running == \E i \in DOMAIN calls : calls[i].phase = "producing"
        IN  /\ useRedis' = existing.useRedis
            /\ calls' = Append(calls,
                   IF existing.result # Null
                   THEN [NewCall(op, k, NoValue, ttl) EXCEPT
                            !.phase = "done", !.result = existing.result]
                   ELSE IF running
                   THEN [NewCall(op, k, NoValue, ttl) EXCEPT
                            !.phase = "done", !.missed = TRUE]
                   ELSE [NewCall(op, k, NoValue, ttl) EXCEPT
                            !.phase = "producing", !.missed = TRUE])
    /\ UNCHANGED <<memoryCache, redisDb, lastSet, redisStatus, configVars,
                   invalidatorVars, warmerVars, managerVars, targetedVars, lastScheduled, rpc, options,
                   strategies, ttlVars, now, last>>

\* wrap(k, fn, ttl) or smartWrap(k, fn, dataType) is called: its get, and
\* on null the call of fn.
WrapCalled(op, k, ttl) ==
    /\ cacheEnabled
    /\ Len(calls) < MaxCalls
    /\ \E redisFails \in RedisOutcomes(useRedis) :
        LET existing == get(k, redisFails) IN
        /\ useRedis' = existing.useRedis
        /\ calls' = Append(calls,
               IF existing.result # Null
               THEN [NewCall(op, k, NoValue, ttl) EXCEPT
                        !.phase = "done", !.result = existing.result]
               ELSE [NewCall(op, k, NoValue, ttl) EXCEPT
                        !.phase = "producing", !.missed = TRUE])
    /\ UNCHANGED <<memoryCache, redisDb, lastSet, redisStatus, configVars,
                   invalidatorVars, warmerVars, managerVars, targetedVars, lastScheduled, rpc, options,
                   strategies, ttlVars, now, last>>

\* The producer of a wrap call throws: the call rethrows, nothing is stored.
ProducerThrows(i) ==
    /\ calls[i].phase = "producing"
    /\ calls' = [calls EXCEPT ![i].phase = "done", ![i].produced = ProducerError,
                              ![i].result = ProducerError]
    /\ UNCHANGED <<tierVars, redisStatus, configVars, invalidatorVars, warmerVars,
                   managerVars, targetedVars, lastScheduled, rpc, options, strategies, ttlVars, now, last>>

\* The producer of a wrap call returns v: smartWrap asks for the
\* contextual TTL, then the set of the call begins.
ProducerAnswers(i, v) ==
    /\ calls[i].phase = "producing"
    /\ \E t \in WarmTimes, feed \in FeedChoices(SmartFeeds) :
        LET r == getContextualTTL(strategies, OverlapDataType, Undefined, Manager,
                                  now, t, feed)
            smart == calls[i].op = "smartWrap"
            call == [calls[i] EXCEPT !.value = v, !.produced = v,
                                     !.ttl = IF smart THEN r.ttl ELSE @]
        IN  /\ nflState' = IF smart THEN r.m.nflState ELSE nflState
            /\ lastStateUpdate' = IF smart THEN r.m.lastStateUpdate ELSE lastStateUpdate
            /\ IF WillGzip(v) THEN
                   /\ calls' = [calls EXCEPT ![i] = [call EXCEPT !.phase = "compressing"]]
                   /\ UNCHANGED <<memoryCache, redisDb, lastSet>>
               ELSE
                   \E redisFails \in RedisOutcomes(useRedis) :
                       \E e \in {AfterCompress(call, FALSE, redisFails)} :
                           /\ calls' = [calls EXCEPT ![i] = e.call]
                           /\ memoryCache' = e.memoryCache
                           /\ redisDb' = e.redisDb
                           /\ lastSet' = e.lastSet
    /\ UNCHANGED <<useRedis, redisStatus, configVars, invalidatorVars, warmerVars,
                   managerVars, targetedVars, lastScheduled, rpc, options, strategies, now, last>>

\* compressionManager.compress(v), called directly: the call record keeps
\* what it returned (slot) and whether gzip failed.
CompressCalled(v, gzipFails) ==
    LET r == compress(v, options, gzipFails) IN
    /\ Len(calls) < MaxCalls
    /\ calls' = Append(calls,
           [NewCall("compress", "", v, 0) EXCEPT
               !.phase = "done", !.failed = gzipFails,
               !.slot = [NoSlot EXCEPT !.format = "entry", !.data = r.data,
                                       !.compressed = r.compressed,
                                       !.originalSize = r.originalSize,
                                       !.compressedSize = r.compressedSize]])
    /\ UNCHANGED <<tierVars, redisStatus, configVars, invalidatorVars, warmerVars,
                   managerVars, targetedVars, lastScheduled, rpc, options, strategies,
                   ttlVars, now, last>>

\* task.dataType.includes(type)
includes(dataType, type) ==
    \/ dataType = type
    \/ dataType = "nfl_state" /\ type \in {"nfl", "state"}
    \/ dataType = "trending" /\ type = "trend"

\* executeBatched(ts, limit) begins for a warmLeagueData or manualWarm call.
StartRun(kind, ts, limit) ==
    targeted' = [kind |-> kind, tasks |-> ts, batchStart |-> 0,
                 taskState |-> [j \in 1..Len(ts) |-> "waiting"], limit |-> limit]

\* Such a run is executing tasks.
Running == targeted.kind # "none"
TargetedBatch ==
    {j \in 1..Len(targeted.tasks) :
        targeted.batchStart < j /\ j <= targeted.batchStart + targeted.limit}

\* warmLeagueData(leagueIds): returns at once while a warmCache cycle is
\* running; otherwise builds its tasks and runs them two at a time.  It
\* neither sets nor resets warmingInProgress.  One such run at a time is
\* followed.
WarmLeagueData(leagueIds) ==
    /\ last = Idle
    /\ ~Running
    /\ IF warmingInProgress THEN
           /\ last' = [Idle EXCEPT !.op = "warmLeagueData", !.source = "skipped"]
           /\ UNCHANGED targeted
       ELSE
           /\ StartRun("warmLeagueData", leagueTasks(leagueIds), 2)
           /\ last' = Idle
    /\ UNCHANGED <<tierVars, redisStatus, configVars, invalidatorVars, warmerVars,
                   managerVars, callVars, options, strategies, ttlVars, now>>

\* manualWarm(dataTypes) with a non-empty dataTypes: fails at once while a
\* warmCache cycle is running; otherwise takes the tasks of getWarmingTasks
\* whose dataType includes one of dataTypes and, if there are any, runs
\* them three at a time, without touching warmingInProgress.
ManualWarm(dataTypes) ==
    /\ last = Idle
    /\ ~Running
    /\ IF warmingInProgress THEN
           /\ last' = [Idle EXCEPT !.op = "manualWarm", !.source = "failure"]
           /\ UNCHANGED targeted
       ELSE
           \E apiFails \in BOOLEAN :
               LET filteredTasks ==
                       SelectSeq(getWarmingTasks(apiFails),
                                 LAMBDA task : \E type \in dataTypes :
                                                  includes(task.dataType, type))
               IN  IF filteredTasks = <<>> THEN
                       /\ last' = [Idle EXCEPT !.op = "manualWarm",
                                                !.source = "failure"]
                       /\ UNCHANGED targeted
                   ELSE
                       /\ StartRun("manualWarm", filteredTasks, 3)
                       /\ last' = Idle
    /\ UNCHANGED <<tierVars, redisStatus, configVars, invalidatorVars, warmerVars,
                   managerVars, callVars, options, strategies, ttlVars, now>>

\* A task of the run up to the start of its producer.
TargetedTaskCheck(j) ==
    /\ last = Idle
    /\ j \in TargetedBatch
    /\ targeted.taskState[j] = "waiting"
    /\ \E redisFails \in RedisOutcomes(useRedis) :
        LET existing == get(targeted.tasks[j].key, redisFails) IN
        IF isWarm(existing.result) THEN
            /\ useRedis' = existing.useRedis
            /\ targeted' = [targeted EXCEPT !.taskState[j] = "success"]
        ELSE
            \E again \in RedisOutcomes(existing.useRedis) :
                /\ useRedis' = IF again THEN FALSE ELSE existing.useRedis
                /\ targeted' = [targeted EXCEPT !.taskState[j] = "producing"]
    /\ last' = Idle
    /\ UNCHANGED <<memoryCache, redisDb, lastSet, redisStatus, configVars,
                   invalidatorVars, warmerVars, managerVars, callVars, options, strategies,
                   ttlVars, now>>

\* The producer of a task of the run settles before the task's timer fires.
TargetedProducerReturn(j, outcome) ==
    /\ last = Idle
    /\ j \in TargetedBatch
    /\ targeted.taskState[j] = "producing"
    /\ ProducerSettles(targeted.tasks[j].key, targeted.tasks[j].dataType, outcome)
    /\ targeted' = [targeted EXCEPT !.taskState[j] =
                        IF outcome = ProducerError THEN "failed" ELSE "success"]
    /\ last' = Idle
    /\ UNCHANGED <<redisStatus, configVars, invalidatorVars, warmerVars, managerVars, callVars,
                   options, strategies, now>>

\* The 15 s timer of a task of the run fires first.
TargetedTaskTimeout(j) ==
    /\ last = Idle
    /\ j \in TargetedBatch
    /\ targeted.taskState[j] = "producing"
    /\ targeted' = [targeted EXCEPT !.taskState[j] = "failed"]
    /\ abandoned' = abandoned \cup {targeted.tasks[j].key}
    /\ last' = Idle
    /\ UNCHANGED <<tierVars, redisStatus, configVars, invalidatorVars, managerVars, callVars,
                   warmingInProgress, lastWarmingTime, warmingStats, tasks,
                   batchStart, taskState, warmLog, options, strategies, ttlVars, now>>

\* Promise.allSettled of the batch resolves: the next batch starts, or
\* executeBatched returns and with it the call.
TargetedBatchEnd ==
    /\ last = Idle
    /\ Running
    /\ \A j \in TargetedBatch : targeted.taskState[j] \in {"success", "failed"}
    /\ IF targeted.batchStart + targeted.limit < Len(targeted.tasks) THEN
           /\ targeted' = [targeted EXCEPT !.batchStart = @ + targeted.limit]
           /\ last' = Idle
       ELSE
           /\ targeted' = NoRun
           /\ last' = [Idle EXCEPT !.op = targeted.kind, !.source = "completed"]
    /\ UNCHANGED <<tierVars, redisStatus, configVars, invalidatorVars, warmerVars,
                   managerVars, callVars, options, strategies, ttlVars, now>>

\* The entry of k expires: Redis (EX) and node-cache (ttl), which set wrote
\* with the same ttl, drop it.
WarmExpire(k) ==
    /\ last = Idle
    /\ memoryCache[k].format # "none" \/ redisDb[k].format # "none"
    /\ memoryCache' = [memoryCache EXCEPT ![k] = NoSlot]
    /\ redisDb' = [redisDb EXCEPT ![k] = NoSlot]
    /\ lastSet' = [lastSet EXCEPT ![k] = NoValue]
    /\ warmLog' = [warmLog EXCEPT !.disturbed = TRUE, !.current = TRUE]
    /\ last' = Idle
    /\ UNCHANGED <<useRedis, redisStatus, configVars, invalidatorVars, managerVars, callVars, targetedVars,
                   warmingInProgress, lastWarmingTime, warmingStats, tasks,
                   batchStart, taskState, abandoned, options, strategies, ttlVars,
                   now>>

-----------------------------------------------------------------------------
(* ParallelRPCProcessor (rpc/parallel-processor.ts).  A request is         *)
(* [id, method, dependencies, priority]; its id is its place in the batch. *)

\* remaining.splice(i, 1)
Splice(q, i) == SubSeq(q, 1, i - 1) \o SubSeq(q, i + 1, Len(q))

\* One pass of createExecutionPlan over remaining, from its last element to
\* its first: a request whose dependencies are all in processedMethods goes
\* to the phase, and its method is added to processedMethods at once.
RECURSIVE PlanPass(_, _, _, _)
PlanPass(remaining, i, processedMethods, currentPhase) ==
    IF i = 0
    THEN [remaining |-> remaining, processedMethods |-> processedMethods,
          currentPhase |-> currentPhase]
    ELSE LET request == remaining[i]
             unmetDependencies == request.dependencies \ processedMethods
         IN  IF unmetDependencies = {}
             THEN PlanPass(Splice(remaining, i), i - 1,
                           processedMethods \cup {request.method},
                           Append(currentPhase, request))
             ELSE PlanPass(remaining, i - 1, processedMethods, currentPhase)

\* The while loop of createExecutionPlan: a pass that finds nothing puts
\* all that remains into one phase; every phase is sorted by priority.
RECURSIVE PlanPhases(_, _, _)
PlanPhases(remaining, processedMethods, phases) ==
    IF remaining = <<>> THEN phases
    ELSE LET pass == PlanPass(remaining, Len(remaining), processedMethods, <<>>) IN
         IF pass.currentPhase = <<>>
         THEN Append(phases, sortedTasks(remaining))
         ELSE PlanPhases(pass.remaining, pass.processedMethods,
                         Append(phases, sortedTasks(pass.currentPhase)))

\* ParallelRPCProcessor.createExecutionPlan
createExecutionPlan(requests) == PlanPhases(requests, {}, <<>>)

\* The requests of phase n of the plan.
InPhase(b, n) == {b.plan[n][j].id : j \in 1..Len(b.plan[n])}

\* phase.map(async ...) of processBatch: every request of the phase calls
\* processRequest at once; a method without executor is answered with
\* 'Method not found', the executor of any other is now running.
StartPhase(b, n) ==
    [b EXCEPT !.phase = n,
              !.status = [i \in DOMAIN b.status |->
                             IF i \in InPhase(b, n)
                             THEN IF b.requests[i].method \in RegisteredMethods
                                  THEN "running" ELSE "error"
                             ELSE b.status[i]]]

\* processBatch(requests): an empty batch returns []; a single request is
\* processed without a plan; otherwise the plan is made and its first
\* phase started.
ProcessBatch(kinds) ==
    LET requests == [i \in 1..Len(kinds) |->
                        [id |-> i, method |-> kinds[i].method,
                         dependencies |-> kinds[i].dependencies,
                         priority |-> kinds[i].priority]]
        b == [requests |-> requests,
              plan |-> IF Len(requests) = 1 THEN <<requests>>
                       ELSE createExecutionPlan(requests),
              phase |-> 0,
              status |-> [i \in 1..Len(kinds) |-> "waiting"],
              responses |-> <<>>, returned |-> FALSE]
    IN  /\ rpc = NoBatch
        /\ rpc' = IF kinds = <<>> THEN [b EXCEPT !.returned = TRUE]
                  ELSE StartPhase(b, 1)
        /\ UNCHANGED <<tierVars, redisStatus, configVars, invalidatorVars, warmerVars,
                       managerVars, targetedVars, calls, lastScheduled, options,
                       strategies, ttlVars, now, last>>

\* The executor of a request resolves (ok) or rejects.
ExecutorSettles(i, ok) ==
    /\ i \in DOMAIN rpc.status
    /\ rpc.status[i] = "running"
    /\ rpc' = [rpc EXCEPT !.status[i] = IF ok THEN "result" ELSE "error"]
    /\ UNCHANGED <<tierVars, redisStatus, configVars, invalidatorVars, warmerVars,
                   managerVars, targetedVars, calls, lastScheduled, options,
                   strategies, ttlVars, now, last>>

\* Promise.all of the phase resolves: its responses are pushed in the order
\* of the phase, and the next phase starts or processBatch returns.
PhaseEnd ==
    /\ rpc.phase >= 1
    /\ ~rpc.returned
    /\ \A i \in InPhase(rpc, rpc.phase) : rpc.status[i] \in {"result", "error"}
    /\ LET phase == rpc.plan[rpc.phase]
           b == [rpc EXCEPT !.responses = @ \o
                    [j \in 1..Len(phase) |->
                        [id |-> phase[j].id, ok |-> rpc.status[phase[j].id] = "result"]]]
       IN  rpc' = IF rpc.phase < Len(rpc.plan) THEN StartPhase(b, rpc.phase + 1)
                  ELSE [b EXCEPT !.returned = TRUE]
    /\ UNCHANGED <<tierVars, redisStatus, configVars, invalidatorVars, warmerVars,
                   managerVars, targetedVars, calls, lastScheduled, options,
                   strategies, ttlVars, now, last>>

-----------------------------------------------------------------------------
(* Cache manager: CacheManager (manager.ts).  Sizes are megabytes.         *)

\* const memoryLimit = 100 * 1024 * 1024
memoryLimit == 100

\* getHealthStatus with an overall status that leaves the warmer out.
getHealthStatus_IgnoresWarming(stats, warming, invalidation) ==
    LET memoryPercentage == (stats.vsize * 100) \div memoryLimit
        memoryStatus == IF memoryPercentage > 90 THEN "critical"
                        ELSE IF memoryPercentage > 70 THEN "high" ELSE "ok"
    IN  [status |-> IF memoryStatus = "critical" THEN "unhealthy"
                    ELSE IF memoryStatus = "high" \/ ~stats.useRedis
                         THEN "degraded" ELSE "healthy",
         details |-> [redis |-> IF stats.useRedis THEN "connected" ELSE "disconnected",
                      memory |-> memoryStatus,
                      compression |-> IF stats.enabled THEN "enabled" ELSE "disabled",
                      warming |-> "inactive",
                      invalidation |-> "inactive"],
         memoryPercentage |-> memoryPercentage]

\* getHealthStatus with an overall status that counts disabled compression.
getHealthStatus_CompressionDegrades(stats, warming, invalidation) ==
    LET memoryPercentage == (stats.vsize * 100) \div memoryLimit
        memoryStatus == IF memoryPercentage > 90 THEN "critical"
                        ELSE IF memoryPercentage > 70 THEN "high" ELSE "ok"
        warmingStatus == IF warming.warmingInProgress THEN "active"
                         ELSE IF warming.lastWarmingTime # Undefined THEN "inactive"
                         ELSE "error"
    IN  [status |-> IF memoryStatus = "critical" THEN "unhealthy"
                    ELSE IF \/ memoryStatus = "high"
                            \/ ~stats.useRedis
                            \/ warmingStatus = "error"
                            \/ ~stats.enabled
                         THEN "degraded" ELSE "healthy",
         details |-> [redis |-> IF stats.useRedis THEN "connected" ELSE "disconnected",
                      memory |-> memoryStatus,
                      compression |-> IF stats.enabled THEN "enabled" ELSE "disabled",
                      warming |-> warmingStatus,
                      invalidation |-> IF invalidation.lastInvalidationRun # Undefined
                                       THEN "active" ELSE "inactive"],
         memoryPercentage |-> memoryPercentage]

\* CacheManager.getHealthStatus, from what the three getStats calls return:
\* stats = [useRedis, vsize, enabled], warming = [warmingInProgress,
\* lastWarmingTime], invalidation = [lastInvalidationRun].
getHealthStatus(stats, warming, invalidation) ==
    LET redis == IF stats.useRedis THEN "connected" ELSE "disconnected"
        memoryPercentage == (stats.vsize * 100) \div memoryLimit
        memoryStatus == IF memoryPercentage > 90 THEN "critical"
                        ELSE IF memoryPercentage > 70 THEN "high" ELSE "ok"
        compressionStatus == IF stats.enabled THEN "enabled" ELSE "disabled"
        warmingStatus == IF warming.warmingInProgress THEN "active"
                         ELSE IF warming.lastWarmingTime # Undefined THEN "inactive"
                         ELSE "error"
        invalidationStatus == IF invalidation.lastInvalidationRun # Undefined
                              THEN "active" ELSE "inactive"
        overallStatus ==
            IF memoryStatus = "critical" THEN "unhealthy"
            ELSE IF \/ memoryStatus = "high"
                    \/ ~stats.useRedis
                    \/ warmingStatus = "error"
                    \/ redis = "disconnected"
                 THEN "degraded" ELSE "healthy"
    IN  [status |-> overallStatus,
         details |-> [redis |-> redis, memory |-> memoryStatus,
                      compression |-> compressionStatus, warming |-> warmingStatus,
                      invalidation |-> invalidationStatus],
         memoryPercentage |-> memoryPercentage]

\* getHealthStatus(); vsize is what node-cache reports as stats.vsize.
\* enhancedCacheService.getStats() refreshes the league-phase snapshot.
GetHealthStatus(vsize) ==
    /\ last = Idle
    /\ \E feed \in FeedChoices(SmartFeeds) :
        LET smartStats == getCacheStats(Manager, now, feed)
            h == getHealthStatus(
                     [useRedis |-> useRedis, vsize |-> vsize, enabled |-> options.enabled],
                     [warmingInProgress |-> warmingInProgress,
                      lastWarmingTime |-> lastWarmingTime],
                     [lastInvalidationRun |-> lastInvalidationRun])
        IN  /\ nflState' = smartStats.m.nflState
            /\ lastStateUpdate' = smartStats.m.lastStateUpdate
            /\ last' = [Idle EXCEPT !.op = "getHealthStatus", !.source = h.status,
                           !.count = h.memoryPercentage]
    /\ UNCHANGED <<tierVars, redisStatus, configVars, engineVars, options, strategies,
                   now>>

\* The end of optimizeCache with a trigger that default rules carry.
OptimizeFinish_GameStart(enable, feed) ==
    /\ options' = IF enable THEN updateOptions(options, [enabled |-> TRUE]) ELSE options
    /\ \E run \in RedisRunChoices :
        LET v == invalidateByTrigger("game_start", Invalidator, now, run) IN
        /\ memoryCache' = v.tiers.memoryCache
        /\ redisDb' = v.tiers.redisDb
        /\ useRedis' = v.tiers.useRedis
        /\ lastSet' = v.tiers.lastSet
        /\ scheduled' = v.scheduled
        /\ lastInvalidationRun' = v.lastInvalidationRun
    /\ nflState' = getCacheStats(Manager, now, feed).m.nflState
    /\ lastStateUpdate' = getCacheStats(Manager, now, feed).m.lastStateUpdate
    /\ UNCHANGED <<redisStatus, configVars, invalidationRules, lastFired, managerVars,
                   targetedVars, lastScheduled, rpc, strategies, now>>

\* The end of optimizeCache: updateOptions({enabled: true}) when the health
\* report said compression disabled above 50% memory, then
\* invalidateByTrigger('optimization') and the second getPerformanceMetrics.
OptimizeFinish(enable, feed) ==
    /\ options' = IF enable THEN updateOptions(options, [enabled |-> TRUE]) ELSE options
    /\ \E run \in RedisRunChoices :
        LET v == invalidateByTrigger("optimization", Invalidator, now, run) IN
        /\ memoryCache' = v.tiers.memoryCache
        /\ redisDb' = v.tiers.redisDb
        /\ useRedis' = v.tiers.useRedis
        /\ lastSet' = v.tiers.lastSet
        /\ scheduled' = v.scheduled
        /\ lastInvalidationRun' = v.lastInvalidationRun
    /\ nflState' = getCacheStats(Manager, now, feed).m.nflState
    /\ lastStateUpdate' = getCacheStats(Manager, now, feed).m.lastStateUpdate
    /\ UNCHANGED <<redisStatus, configVars, invalidationRules, lastFired, managerVars,
                   targetedVars, lastScheduled, rpc, strategies, now>>

\* An optimizeCache call is awaiting the warmCache it made.
OptimizePending == \E i \in DOMAIN calls : calls[i].op = "optimizeCache" /\ calls[i].phase = "warming"

\* optimizeCache(): getHealthStatus and getPerformanceMetrics (vsize and
\* hitRate are what node-cache reports), cleanupExpiredEntries under high
\* or critical memory (it reads the statistics and removes nothing),
\* warmCache when the hit rate is below 50, and the end above.  With a
\* cycle to wait for the call stays pending; warmCache returns at once
\* while a cycle is running.
OptimizeCache(vsize, hitRate, feed) ==
    LET h == getHealthStatus(
                 [useRedis |-> useRedis, vsize |-> vsize, enabled |-> options.enabled],
                 [warmingInProgress |-> warmingInProgress,
                  lastWarmingTime |-> lastWarmingTime],
                 [lastInvalidationRun |-> lastInvalidationRun])
        enable == h.details.compression = "disabled" /\ h.memoryPercentage > 50
        call == [NewCall("optimizeCache", "", NoValue, 0) EXCEPT !.enable = enable]
    IN  /\ last = Idle
        /\ Len(calls) < MaxCalls
        /\ IF hitRate < 50 /\ ~warmingInProgress THEN
               /\ \E apiFails \in BOOLEAN : StartCycle(apiFails)
               /\ calls' = Append(calls, [call EXCEPT !.phase = "warming"])
               /\ nflState' = getCacheStats(Manager, now, feed).m.nflState
               /\ lastStateUpdate' = getCacheStats(Manager, now, feed).m.lastStateUpdate
               /\ UNCHANGED <<tierVars, redisStatus, configVars, invalidatorVars,
                              managerVars, targetedVars, lastScheduled, rpc, options,
                              strategies, now>>
           ELSE
               /\ OptimizeFinish(enable, feed)
               /\ calls' = Append(calls, [call EXCEPT !.phase = "done"])
               /\ UNCHANGED warmerVars
        /\ last' = Idle

\* The cycle an optimizeCache call was waiting for has ended: the call goes
\* on to its end.
OptimizeCacheResumes(i, feed) ==
    /\ last = Idle
    /\ calls[i].op = "optimizeCache"
    /\ calls[i].phase = "warming"
    /\ ~warmingInProgress
    /\ OptimizeFinish(calls[i].enable, feed)
    /\ calls' = [calls EXCEPT ![i].phase = "done"]
    /\ last' = Idle
    /\ UNCHANGED warmerVars

\* emergencyReset(): flush, updateOptions({enabled: true}) and warmCache.
\* While a cycle is running warmCache returns at once and so does the
\* reset; otherwise the reset returns when the cycle it started has ended.
EmergencyReset ==
    /\ last = Idle
    /\ ~resetPending
    /\ \E redisFails \in (IF RedisUsable THEN BOOLEAN ELSE {FALSE}) :
        /\ redisDb' = IF RedisUsable /\ ~redisFails
                      THEN [k \in Keys |-> NoSlot] ELSE redisDb
        /\ useRedis' = IF RedisUsable /\ redisFails THEN FALSE ELSE useRedis
        /\ memoryCache' = [k \in Keys |-> NoSlot]
        /\ lastSet' = [k \in Keys |-> Deleted]
    /\ options' = updateOptions(options, [enabled |-> TRUE])
    /\ IF warmingInProgress THEN
           /\ last' = [Idle EXCEPT !.op = "emergencyReset", !.source = "success"]
           /\ UNCHANGED <<warmerVars, resetPending>>
       ELSE
           /\ \E apiFails \in BOOLEAN : StartCycle(apiFails)
           /\ resetPending' = TRUE
           /\ last' = Idle
    /\ UNCHANGED <<redisStatus, configVars, invalidatorVars, targetedVars, callVars, strategies, ttlVars,
                   now>>

-----------------------------------------------------------------------------
(* Specifications.                                                         *)

Next ==
    \/ \E k \in StoreKeys : Get(k)
    \/ \E k \in StoreKeys, v \in Values, ttl \in TTLInputs : Set(k, v, ttl)
    \/ \E k \in StoreKeys : Del(k)
    \/ Flush
    \/ \E k \in StoreKeys, o \in ProducerOutcomes, ttl \in TTLInputs : Wrap(k, o, ttl)
    \/ \E k \in StoreKeys, o \in ProducerOutcomes, d \in SmartDataTypes, t \in SmartTimes :
          SmartWrap(k, o, d, Undefined, t)
    \/ \E k \in StoreKeys, v \in Values, d \in SmartDataTypes, t \in SmartTimes :
          SmartSet(k, v, d, Undefined, t)
    \/ \E p \in OptionPartials : UpdateOptions(p)
    \/ RedisStatusChange
    \/ \E k \in StoreKeys : ExpireRedis(k)
    \/ \E k \in StoreKeys : ExpireMemory(k)
    \/ \E k \in StoreKeys, v \in Values : ForeignSet(k, v)
    \/ Return

Spec == Init /\ [][Next]_vars

TTLInit ==
    /\ Init
    /\ service = "EnhancedCacheService"
    /\ cacheEnabled
    /\ redisStatus = "ready"
    /\ useRedis

TTLNext ==
    \/ \E d \in TTLDataTypes, w \in ContextWeeks, t \in TimePoints :
          GetContextualTTL(d, w, t)
    \/ \E d \in TTLDataTypes, t \in TimePoints : GetOptimalTTL(d, t)
    \/ \E u \in StrategyUpdates : UpdateStrategy(u)
    \/ Tick
    \/ Return

TTLSpec == TTLInit /\ [][TTLNext]_vars

\* The TTL policy engine behind smartSet and smartWrap of the
\* EnhancedCacheService.
SmartInit ==
    /\ Init
    /\ service = "EnhancedCacheService"
    /\ cacheEnabled
    /\ redisStatus = "ready"

SmartNext ==
    \/ \E d \in SmartContextTypes, w \in ContextWeeks, t \in SmartTimes :
          GetContextualTTL(d, w, t)
    \/ \E k \in SmartKeys, d \in SmartContextTypes, w \in ContextWeeks, t \in SmartTimes :
          SmartSet(k, SmartValue, d, w, t)
    \/ \E k \in SmartKeys, o \in {SmartValue, ProducerError}, d \in SmartContextTypes,
          w \in ContextWeeks, t \in SmartTimes : SmartWrap(k, o, d, w, t)
    \/ \E k \in SmartKeys : Del(k)
    \/ \E u \in SmartUpdates : UpdateStrategy(u)
    \/ Return

SmartSpec == SmartInit /\ [][SmartNext]_vars

\* The invalidator over the EnhancedCacheService singleton.
InvalidationInit ==
    /\ Init
    /\ service = "EnhancedCacheService"
    /\ cacheEnabled

InvalidationNext ==
    \/ \E k \in InvalidationKeys : Set(k, InvalidationValue, 0)
    \/ \E p \in PatternInputs : InvalidateByPattern(p)
    \/ \E t \in TriggerInputs : InvalidateByTrigger(t)
    \/ \E rules \in scheduled : RunScheduled(rules)
    \/ RedisStatusChange
    \/ Return

InvalidationSpec == InvalidationInit /\ [][InvalidationNext]_vars

\* The invalidator clearing the entries of a league.
LeagueNext ==
    \/ \E k \in LeagueKeys : Set(k, InvalidationValue, 0)
    \/ \E id \in LeagueIds : InvalidateLeague(id)
    \/ RedisStatusChange
    \/ Return

LeagueSpec == InvalidationInit /\ [][LeagueNext]_vars

\* The invalidator with operator-added rules and its timers: a pending
\* setTimeout callback does run.
DeferredNext ==
    \/ \E k \in DeferredKeys : Set(k, InvalidationValue, 0)
    \/ \E t \in DeferredTriggers : InvalidateByTrigger(t)
    \/ \E rule \in OperatorRules : AddInvalidationRule(rule)
    \/ \E rules \in scheduled : RunScheduled(rules)
    \/ Return

\* The rule lists a timer of invalidateByTrigger can hold.
ScheduledLists ==
    {RulesWith(DefaultInvalidationRules \o added, t, {"scheduled"}) :
        added \in UNION {[1..n -> OperatorRules] : n \in 0..MaxOperatorRules},
        t \in DeferredTriggers} \ {<<>>}

DeferredSpec ==
    /\ InvalidationInit
    /\ [][DeferredNext]_vars
    /\ \A rules \in ScheduledLists : WF_vars(RunScheduled(rules))

\* The automatic invalidation scheduler, in a process that came up without
\* Redis (the local tier is the one the invalidator works on).
ScheduleInit ==
    /\ memoryCache = [k \in Keys |-> NoSlot]
    /\ redisDb = [k \in Keys |-> NoSlot]
    /\ redisStatus = "reconnecting"
    /\ service = "EnhancedCacheService"
    /\ cacheEnabled = TRUE
    /\ useRedis = FALSE
    /\ options = DefaultOptions
    /\ strategies = DefaultStrategies
    /\ nflState = NoState
    /\ lastStateUpdate = 0
    /\ now \in ScheduleStartTimes
    /\ invalidationRules = DefaultInvalidationRules
    /\ lastInvalidationRun = Undefined
    /\ scheduled = {}
    /\ lastFired = [t \in ScheduleTriggers |-> Undefined]
    /\ WarmerInit
    /\ lastSet = [k \in Keys |-> NoValue]
    /\ last = Idle

ScheduleNext ==
    \/ \E k \in ScheduleKeys : Set(k, InvalidationValue, 0)
    \/ CheckScheduleBasedInvalidation
    \/ \E rules \in scheduled : RunScheduled(rules)
    \/ ScheduleTick
    \/ Return

ScheduleSpec == ScheduleInit /\ [][ScheduleNext]_vars

\* The warmer on an enabled EnhancedCacheService, with expiry and Redis
\* calls that may fail.
WarmInit ==
    /\ Init
    /\ service = "EnhancedCacheService"
    /\ cacheEnabled

WarmNext ==
    \/ WarmCache
    \/ \E j \in 1..Len(tasks) : TaskCheck(j)
    \/ \E j \in 1..Len(tasks), outcome \in WarmOutcomes : ProducerReturn(j, outcome)
    \/ \E j \in 1..Len(tasks) : TaskTimeout(j)
    \/ \E k \in WarmKeys, outcome \in WarmOutcomes : AbandonedReturn(k, outcome)
    \/ BatchEnd
    \/ \E k \in WarmKeys : WarmExpire(k)
    \/ Return

WarmSpec == WarmInit /\ [][WarmNext]_vars

\* Calls on one store instance that overlap, after the compression
\* threshold was lowered with updateOptions.
OverlapInit ==
    /\ memoryCache = [k \in Keys |-> NoSlot]
    /\ redisDb = [k \in Keys |-> NoSlot]
    /\ redisStatus \in {"ready", "reconnecting"}
    /\ service \in Services
    /\ cacheEnabled = TRUE
    /\ useRedis = (redisStatus = "ready")
    /\ options = updateOptions(DefaultOptions, [threshold |-> SmallThreshold])
    /\ strategies = DefaultStrategies
    /\ nflState = NoState
    /\ lastStateUpdate = 0
    /\ now = StartTime
    /\ invalidationRules = DefaultInvalidationRules
    /\ lastInvalidationRun = Undefined
    /\ scheduled = {}
    /\ lastFired = [t \in ScheduleTriggers |-> Undefined]
    /\ WarmerInit
    /\ lastSet = [k \in Keys |-> NoValue]
    /\ last = Idle

OverlapNext ==
    \/ \E v \in OverlapValues : SetCalled(OverlapKey, v, OverlapTTL)
    \/ \E i \in DOMAIN calls, gzipFails \in BOOLEAN : CompressSettles(i, gzipFails)
    \/ \E i \in DOMAIN calls : RedisReplies(i)
    \/ \E op \in {"wrap", "smartWrap"} :
          /\ op = "smartWrap" => service = "EnhancedCacheService"
          /\ WrapCalled(op, OverlapKey, OverlapTTL)
    \/ \E i \in DOMAIN calls : ProducerThrows(i)
    \/ \E i \in DOMAIN calls, v \in OverlapValues : ProducerAnswers(i, v)

OverlapSpec == OverlapInit /\ [][OverlapNext]_vars

\* The steps of warming cycles with producers and a feed that may never
\* answer, in a process that came up without Redis.  What the code itself
\* schedules does happen: the continuation of a task, the 15 s timer of a
\* started producer, the request timeout of the API client (axios timeout,
\* client.ts), the continuation after Promise.allSettled.
CycleInit ==
    /\ WarmInit
    /\ redisStatus = "reconnecting"
    /\ useRedis = FALSE

CycleNext ==
    \/ BeginWarmCache
    \/ \E apiFails \in BOOLEAN : FeedCallSettles(apiFails)
    \/ \E j \in 1..Len(tasks) : TaskCheck(j)
    \/ \E j \in 1..Len(tasks) : ProducerReturn(j, CycleValue)
    \/ \E j \in 1..Len(tasks) : TaskTimeout(j)
    \/ \E k \in WarmKeys : AbandonedReturn(k, CycleValue)
    \/ BatchEnd
    \/ Return

CycleSpec ==
    /\ CycleInit
    /\ [][CycleNext]_vars
    /\ WF_vars(FeedCallSettles(TRUE))
    /\ WF_vars(\E j \in 1..Len(tasks) : TaskCheck(j))
    /\ WF_vars(\E j \in 1..Len(tasks) : TaskTimeout(j))
    /\ WF_vars(BatchEnd)

\* The background cycle together with the targeted calls, in a process
\* that came up without Redis.
TargetedNext ==
    \/ WarmCache
    \/ \E j \in 1..Len(tasks) : TaskCheck(j)
    \/ \E j \in 1..Len(tasks) : ProducerReturn(j, TargetedValue)
    \/ BatchEnd
    \/ \E leagueIds \in TargetedLeagueIds : WarmLeagueData(leagueIds)
    \/ \E dataTypes \in TargetedDataTypes : ManualWarm(dataTypes)
    \/ \E j \in 1..Len(targeted.tasks) : TargetedTaskCheck(j)
    \/ \E j \in 1..Len(targeted.tasks) : TargetedProducerReturn(j, TargetedValue)
    \/ \E j \in 1..Len(targeted.tasks) : TargetedTaskTimeout(j)
    \/ \E k \in abandoned : AbandonedReturn(k, TargetedValue)
    \/ TargetedBatchEnd
    \/ Return

TargetedSpec == CycleInit /\ [][TargetedNext]_vars

\* The manager over the store, the warmer and the invalidator.  Callers
\* write, invalidate and reconfigure between cycles; within a cycle the
\* tasks are taken in list order and every producer returns a value before
\* its timeout.
ManagerInit ==
    /\ Init
    /\ service = "EnhancedCacheService"
    /\ cacheEnabled

InOrder(j) == \A i \in 1..(j - 1) : taskState[i] \in {"success", "failed"}

ManagerNext ==
    \/ ~warmingInProgress /\ \E k \in ManagerKeys : Set(k, InvalidationValue, 0)
    \/ \E vsize \in MemoryUsages : GetHealthStatus(vsize)
    \/ EmergencyReset
    \/ ~warmingInProgress /\ \E partial \in ManagerPartials : UpdateOptions(partial)
    \/ ~warmingInProgress /\ \E trigger \in ManagerTriggers : InvalidateByTrigger(trigger)
    \/ WarmCache
    \/ \E j \in 1..Len(tasks) : InOrder(j) /\ TaskCheck(j)
    \/ \E j \in 1..Len(tasks) : InOrder(j) /\ ProducerReturn(j, InvalidationValue)
    \/ BatchEnd
    \/ Return

ManagerSpec == ManagerInit /\ [][ManagerNext]_vars

\* The warming scheduler beside manual cycles, in a process without Redis.
\* The cycles are those of getWarmingTasks with the API failing (one task):
\* what the scheduler decides does not depend on the length of a cycle.
WarmScheduleInit ==
    /\ memoryCache = [k \in Keys |-> NoSlot]
    /\ redisDb = [k \in Keys |-> NoSlot]
    /\ redisStatus = "reconnecting"
    /\ service = "EnhancedCacheService"
    /\ cacheEnabled = TRUE
    /\ useRedis = FALSE
    /\ options = DefaultOptions
    /\ strategies = DefaultStrategies
    /\ nflState = NoState
    /\ lastStateUpdate = 0
    /\ now = WarmScheduleStart
    /\ invalidationRules = DefaultInvalidationRules
    /\ lastInvalidationRun = Undefined
    /\ scheduled = {}
    /\ lastFired = [t \in ScheduleTriggers |-> Undefined]
    /\ WarmerInit
    /\ lastSet = [k \in Keys |-> NoValue]
    /\ last = Idle

WarmScheduleNext ==
    \/ \E feed \in WarmScheduleFeeds, apiFails \in {TRUE} : ScheduledWarmingCheck(feed, apiFails)
    \/ ~warmingInProgress /\ WarmCache /\ Len(tasks') = 1
    \/ \E j \in 1..Len(tasks) : InOrder(j) /\ TaskCheck(j)
    \/ \E j \in 1..Len(tasks) : InOrder(j) /\ ProducerReturn(j, CycleValue)
    \/ BatchEnd
    \/ Return

\* optimizeCache on a store that callers have written, under any memory
\* level and with compression switched off or on.
OptimizeNext ==
    \/ ~warmingInProgress /\ \E k \in ManagerKeys : Set(k, InvalidationValue, 0)
    \/ ~warmingInProgress /\ \E partial \in ManagerPartials : UpdateOptions(partial)
    \/ \E vsize \in MemoryUsages, hitRate \in HitRates, feed \in FeedChoices(SmartFeeds) :
          OptimizeCache(vsize, hitRate, feed)
    \/ \E i \in DOMAIN calls, feed \in FeedChoices(SmartFeeds) : OptimizeCacheResumes(i, feed)
    \/ \E j \in 1..Len(tasks) : InOrder(j) /\ TaskCheck(j)
    \/ \E j \in 1..Len(tasks) : InOrder(j) /\ ProducerReturn(j, InvalidationValue)
    \/ BatchEnd
    \/ Return

OptimizeSpec == ManagerInit /\ [][OptimizeNext]_vars

WarmScheduleSpec == WarmScheduleInit /\ [][WarmScheduleNext]_vars

\* One processBatch call with executors that settle in any order.
Batches == UNION {[1..n -> RequestKinds] : n \in 0..MaxBatch}

BatchNext ==
    \/ \E kinds \in Batches : ProcessBatch(kinds)
    \/ \E i \in 1..MaxBatch, ok \in BOOLEAN : ExecutorSettles(i, ok)
    \/ PhaseEnd

BatchSpec == CycleInit /\ [][BatchNext]_vars

\* The executors settle and the awaiting processBatch resumes.
BatchFairSpec ==
    /\ BatchSpec
    /\ WF_vars(\E i \in 1..MaxBatch, ok \in BOOLEAN : ExecutorSettles(i, ok))
    /\ WF_vars(PhaseEnd)

\* compress under the options that updateOptions can leave.
CompressInit == CycleInit

CompressNext ==
    \/ \E partial \in CompressPartials : UpdateOptions(partial)
    \/ \E v \in Values, gzipFails \in BOOLEAN :
          /\ gzipFails \in GzipOutcomes(v)
          /\ CompressCalled(v, gzipFails)

CompressSpec == CompressInit /\ [][CompressNext]_vars

-----------------------------------------------------------------------------
(* Properties of the store (checked under Spec).                           *)

\* What the local tier of the instance yields for k, read directly.
LocalValue(k) ==
    IF memoryCache[k].format = "none" THEN Null
    ELSE IF service = "EnhancedCacheService"
         THEN decompress(memoryCache[k].data, memoryCache[k].compressed).value
         ELSE memoryCache[k].value

StoreOps == {"get", "set", "del", "flush", "smartSet"}
WrapOps == {"wrap", "smartWrap"}

\* An entry written by another client of the database is in the Redis slot.
ForeignWritten(k) ==
    /\ redisDb[k].format # "none"
    /\ redisDb[k].format # (IF service = "EnhancedCacheService" THEN "entry" ELSE "value")

\* C1 (as stated): once set(k, v, ttl) or smartSet has completed and no
\* set, del, flush or expiry of k has happened since (and no other client
\* has written k), get(k) returns a value equal to v.
C1_RoundTrip ==
    (last.op = "get" /\ cacheEnabled /\ lastSet[last.key] \in Values
                     /\ ~ForeignWritten(last.key))
        => last.result = lastSet[last.key]

\* C2 (as stated): a get issued after the last completed set(k, v) returns
\* v, and a get issued after the last completed del(k) or flush returns a
\* miss, also when the distributed tier was not ready in between.
C2_NoStaleRead ==
    (last.op = "get" /\ cacheEnabled /\ ~ForeignWritten(last.key)) =>
        /\ lastSet[last.key] \in Values => last.result = lastSet[last.key]
        /\ lastSet[last.key] = Deleted =>
              (last.source = "miss" /\ last.result = Null)

\* C3: when the distributed-tier call of get, set, del or flush fails, the
\* operation raises nothing, leaves useRedis false, and the local tier
\* serves it: get returns the local value, set leaves its value readable
\* locally, del and flush leave no local entry.
C3_GracefulDegradation ==
    (last.op \in StoreOps /\ last.redisFailed) =>
        /\ last.raised = "none"
        /\ ~useRedis
        /\ last.op = "get" =>
              (last.result = LocalValue(last.key) /\ last.source # "redis")
        /\ last.op \in {"set", "smartSet"} => LocalValue(last.key) = last.value
        /\ last.op = "del" => memoryCache[last.key].format = "none"
        /\ last.op = "flush" => \A k \in Keys : memoryCache[k].format = "none"

\* C3 witness: a get whose Redis call failed returned the value the local
\* tier holds.
C3_Witness ==
    /\ last.op = "get"
    /\ last.redisFailed
    /\ last.source = "memory"
    /\ last.result \in Values \ {Null}

\* C4 (as stated): a get that meets a payload it cannot decode raises the
\* typed corrupt-entry error.
C4_CorruptSurfaced ==
    (last.op = "get" /\ last.corrupt) => last.raised = "CorruptCacheEntry"

\* An entry this instance wrote is in the Redis slot.
OwnRedisEntry(k) == redisDb[k].format # "none" /\ ~ForeignWritten(k)

\* C5 (as stated): after set the local tier holds an entry for k that
\* decodes to v, and every key the instance has live in the distributed
\* tier is live in its local tier.
C5_LocalMirror ==
    /\ (last.op \in {"set", "smartSet"} /\ cacheEnabled) =>
          (memoryCache[last.key].format # "none" /\ LocalValue(last.key) = last.value)
    /\ \A k \in Keys : OwnRedisEntry(k) => memoryCache[k].format # "none"

\* C5 (amended): after set or smartSet returns with the cache enabled, the
\* local tier holds an entry for k that decodes to v, whether the Redis
\* write succeeded, failed or was skipped; so when set returns, k is live
\* locally if it is live in the distributed tier.
C5_LocalAlwaysWritten ==
    (last.op \in {"set", "smartSet"} /\ cacheEnabled) =>
        /\ memoryCache[last.key].format # "none"
        /\ LocalValue(last.key) = last.value
        /\ memoryCache[last.key].ttl = last.ttl

\* C5 witness: a set whose Redis write was skipped (tier down or flag off)
\* left the value in the local tier only.
C5_Witness ==
    /\ last.op = "set"
    /\ cacheEnabled
    /\ ~last.redisCalled
    /\ redisDb[last.key].format = "none"
    /\ memoryCache[last.key].format # "none"
    /\ LocalValue(last.key) = last.value

\* C6 (as stated): a wrap or smartWrap on a key whose entry was stored and
\* has not been removed or expired returns the stored result and does not
\* invoke the producer, whatever the stored result is.
C6_WrapHit ==
    [][(last'.op \in WrapOps /\ cacheEnabled /\ lastSet[last'.key] \in Values)
          => (last'.producer = "none" /\ last'.result = lastSet[last'.key])]_vars

\* C7: when the producer throws during wrap or smartWrap, that error
\* reaches the caller and neither tier changes.
C7_ProducerFailure ==
    [][(last'.op \in WrapOps /\ last'.producer = "threw")
          => /\ last'.raised = "ProducerError"
             /\ memoryCache' = memoryCache
             /\ redisDb' = redisDb
             /\ lastSet' = lastSet]_vars

\* C7 witness: a wrap whose producer threw, on a key with no entry.
C7_Witness ==
    /\ last.op \in WrapOps
    /\ last.producer = "threw"
    /\ last.raised = "ProducerError"
    /\ memoryCache[last.key].format = "none"

-----------------------------------------------------------------------------
(* Properties of the TTL policy engine (checked under TTLSpec).            *)

TTLOps == {"getOptimalTTL", "getContextualTTL"}
KnownType == last.dataType \in DOMAIN strategies

\* The windows of the claims, over the sampled times.
InGameWindow(t) ==
    \/ (t[1] = 0 /\ t[2] \in 13..23)
    \/ (t[1] \in {1, 4} /\ t[2] \in 20..23)
InWaiverWindow(t) ==
    \/ (t[1] = 2 /\ t[2] \in 22..23)
    \/ (t[1] = 3 /\ t[2] \in 0..6)

\* C8 (as stated): getOptimalTTL never returns less than 30 seconds.
C8_OptimalFloor == last.op = "getOptimalTTL" => last.ttl >= 30

\* C8 (amended): getContextualTTL never returns less than 30 seconds, for
\* every data type, league phase, time, context week and strategy table
\* reachable through updateStrategy.
C8_ContextualFloor == last.op = "getContextualTTL" => last.ttl >= 30

\* C8 witness: getContextualTTL lifted a shorter duration to the floor.
C8_Witness ==
    /\ last.op = "getContextualTTL"
    /\ last.optimal < 30
    /\ last.ttl = 30

C10_InSeasonSelection ==
    (last.op \in TTLOps /\ KnownType /\ last.seen # {}
                        /\ last.seen \subseteq {"regular", "post"})
        => last.optimal =
              IF last.dataType = "roster" /\ InWaiverWindow(last.time)
              THEN strategies["roster"].waiverTimeTTL
              ELSE IF InGameWindow(last.time)
                   THEN strategies[last.dataType].gameTimeTTL
                   ELSE strategies[last.dataType].baseTTL

\* C10 witness: matchup under the constructor's table, Monday 20h: 60.
C10_Witness ==
    /\ last.op = "getContextualTTL"
    /\ last.week = Undefined
    /\ last.dataType = "matchup"
    /\ strategies = DefaultStrategies
    /\ last.seen = {"regular"}
    /\ last.time = <<1, 20>>
    /\ last.ttl = 60

\* C11 (as stated): for a data type without a strategy the TTL returned to
\* the caller is 300 seconds, whatever the phase, the time and the context
\* week.
C11_UnknownDefault ==
    (last.op \in TTLOps /\ ~KnownType) => last.ttl = UnknownTypeTTL

\* C12 (as stated): between any two calls of the league-phase feed at
\* least the refresh interval elapses; one TTL computation takes no time,
\* so it calls the feed at most once.
C12_BoundedPolling == last.op \in TTLOps => last.fetches <= 1

-----------------------------------------------------------------------------
(* Properties of the invalidation engine (checked under InvalidationSpec). *)

\* The local tier holds an entry for k.
Live(k) == memoryCache[k].format # "none"
\* The key begins with the text of the pattern.
Matches(pattern, k) ==
    \E n \in 0..Len(KeyText(k)) : SubSeq(KeyText(k), 1, n) = pattern
\* The rules a trigger selects, by priority.
Selected(trigger, priorities) ==
    {i \in DOMAIN invalidationRules :
        /\ trigger \in invalidationRules[i].triggers
        /\ invalidationRules[i].priority \in priorities}

\* C13: invalidateByPattern(p) leaves in the local tier exactly the entries
\* whose keys do not match p, unchanged, and returns the number of keys that
\* matched.
C13_PatternIsolation ==
    [][last'.op = "invalidateByPattern" =>
         /\ \A k \in Keys :
               memoryCache'[k] = IF Live(k) /\ Matches(last'.pattern, k)
                                 THEN NoSlot ELSE memoryCache[k]
         /\ last'.count =
               Cardinality({k \in Keys : Live(k) /\ Matches(last'.pattern, k)})]_vars

\* C13 witness: invalidateByPattern(/^foo:/) has removed foo:1 and left
\* bar:1.
C13_Witness ==
    /\ last.op = "invalidateByPattern"
    /\ last.pattern = <<"foo", ":">>
    /\ last.count = 1
    /\ lastSet["foo:1"] = Deleted
    /\ memoryCache["foo:1"].format = "none"
    /\ memoryCache["bar:1"].format # "none"

\* C14: when invalidateByTrigger(t) returns, every local key that matched an
\* immediate rule selected by t is deleted, and the keys that match no rule
\* selected by t are unchanged.
C14_ImmediateSynchronous ==
    [][last'.op = "invalidateByTrigger" =>
         \A k \in Keys :
            /\ (\E i \in Selected(last'.trigger, {"immediate"}) :
                    Matches(invalidationRules[i].pattern, k))
                  => memoryCache'[k] = NoSlot
            /\ (\A i \in Selected(last'.trigger, Priorities) :
                    ~Matches(invalidationRules[i].pattern, k))
                  => memoryCache'[k] = memoryCache[k]]_vars

\* C14 witness: game_start has removed matchups:1 and left the trending key.
C14_Witness ==
    /\ last.op = "invalidateByTrigger"
    /\ last.trigger = "game_start"
    /\ lastSet["matchups:1"] = Deleted
    /\ memoryCache["matchups:1"].format = "none"
    /\ memoryCache["players:trending:1"].format # "none"

\* The calendar condition of each trigger of the periodic check, and its
\* cool-down in minutes (week_change has none).
CalendarCondition(trigger, clock, state) ==
    CASE trigger = "week_change" ->
            getDay(clock) = 2 /\ getHours(clock) = 1 /\ getMinutes(clock) < 5
      [] trigger = "waiver_period" ->
            InWaiverWindow(<<getDay(clock), getHours(clock)>>)
      [] trigger = "game_day" -> getDay(clock) \in {0, 1, 4}
      [] trigger = "game_start" ->
            /\ state.season_type \in {"regular", "post"}
            /\ InGameWindow(<<getDay(clock), getHours(clock)>>)
CoolDown(trigger) ==
    CASE trigger = "week_change" -> 0
      [] trigger = "waiver_period" -> 12 * 60
      [] trigger = "game_day" -> 6 * 60
      [] trigger = "game_start" -> 60

\* C15 (as stated): at a periodic check that has a league-phase snapshot, a
\* trigger fires exactly when its own calendar condition holds and its own
\* last firing is at least its cool-down ago.
C15_IndependentCoolDowns ==
    [][(last'.op = "checkScheduleBasedInvalidation" /\ nflState' # NoState) =>
         \A t \in ScheduleTriggers :
            t \in last'.fired <=>
               /\ CalendarCondition(t, now, nflState')
               /\ \/ lastFired[t] = Undefined
                  \/ now - lastFired[t] >= CoolDown(t)]_vars

-----------------------------------------------------------------------------
(* Properties of the cache warmer (checked under WarmSpec).                *)

\* The producers that have started and not yet settled.
Producing == {j \in 1..Len(tasks) : taskState[j] = "producing"}
RunningProducers == Cardinality(Producing) + Cardinality(abandoned)

C17_BoundedConcurrency ==
    warmingInProgress => RunningProducers <= concurrencyLimit

-----------------------------------------------------------------------------
(* Properties of the cache manager (checked under ManagerSpec).            *)

\* The warmer has never completed a cycle and none is running.
WarmerNeverRan == ~warmingInProgress /\ lastWarmingTime = Undefined

\* C18 (as stated): getHealthStatus returns unhealthy exactly when memory
\* pressure exceeds 90%, otherwise degraded exactly when memory pressure is
\* above 70% or the distributed tier is marked unavailable, otherwise
\* healthy, whatever the compression, warmer and invalidator signals.
C18_HealthClassification ==
    last.op = "getHealthStatus" =>
        last.source = IF last.count > 90 THEN "unhealthy"
                      ELSE IF last.count > 70 \/ ~useRedis THEN "degraded"
                      ELSE "healthy"

\* C18 (amended): getHealthStatus returns unhealthy exactly when memory
\* pressure exceeds 90%, otherwise degraded exactly when memory pressure is
\* above 70%, the distributed tier is marked unavailable, or the warmer has
\* never completed a cycle and is not running, otherwise healthy, whatever
\* the compression and invalidator signals.
C18_HealthWithWarmer ==
    last.op = "getHealthStatus" =>
        last.source = IF last.count > 90 THEN "unhealthy"
                      ELSE IF last.count > 70 \/ ~useRedis \/ WarmerNeverRan
                           THEN "degraded"
                      ELSE "healthy"

\* C18 witness: a healthy report at 70% with compression disabled and the
\* invalidator never run, after the warmer has run.
C18_Witness ==
    /\ last.op = "getHealthStatus" /\ last.source = "healthy" /\ last.count = 70
    /\ ~options.enabled
    /\ lastInvalidationRun = Undefined
    /\ lastWarmingTime # Undefined

\* C19 (as stated): when emergencyReset has returned success, no entry
\* written before the call is left in the local tier or in Redis, and
\* compression is enabled.
C19_ResetClearsBothTiers ==
    (last.op = "emergencyReset" /\ last.source = "success") =>
        /\ \A k \in Keys :
              lastSet[k] = Deleted =>
                  (memoryCache[k].format = "none" /\ redisDb[k].format = "none")
        /\ options.enabled

-----------------------------------------------------------------------------
(* The reachability flag (checked under Spec).                             *)

\* C20: once useRedis is false no step sets it back to true, and no
\* operation of the instance calls, reads or writes the distributed tier,
\* whatever the state of the connection.
C20_FlagNeverRestored ==
    [][~useRedis =>
          /\ ~useRedis'
          /\ last'.op # "none" =>
                (redisDb' = redisDb /\ last'.source # "redis" /\ ~last'.redisCalled)]_vars

\* C20 witness: with the connection ready again and the instance's own
\* entry of the key still in Redis, a get of an instance whose flag is
\* false makes no Redis call and misses.
C20_Witness ==
    /\ last.op = "get" /\ cacheEnabled
    /\ ~useRedis /\ redisStatus = "ready"
    /\ redisDb[last.key].format = (IF service = "EnhancedCacheService"
                                   THEN "entry" ELSE "value")
    /\ ~last.redisCalled /\ last.source = "miss"

-----------------------------------------------------------------------------
(* The two store classes on the shared Redis database (checked under       *)
(* Spec): SleeperAPIClient reads and writes through a CacheService, the    *)
(* warmer through the EnhancedCacheService, under the same keys.           *)

\* C21 (as stated): a get through either store class returns only what was
\* stored through that class: CacheService.get never returns an
\* EnhancedCacheService envelope as the value, and EnhancedCacheService.get
\* never fails to decode an entry CacheService wrote nor marks the
\* distributed tier down because of it.
C21_TierFormatIsolation ==
    [][(last'.op = "get" /\ cacheEnabled) =>
         /\ last'.result # EnvelopeObject
         /\ (ForeignWritten(last'.key) /\ ~last'.redisFailed) =>
               (~last'.corrupt /\ useRedis' = useRedis)]_vars

-----------------------------------------------------------------------------
(* Properties of the contextual TTL as the store uses it (checked under    *)
(* SmartSpec).                                                             *)

\* Twice the factor of the contextual adjustment for a context week, given
\* the snapshot the adjustment read (the one the manager is left with).
TwiceContextFactor(week) ==
    IF week = Undefined \/ nflState = NoState THEN 2
    ELSE IF week = nflState.week THEN 1
    ELSE IF week > nflState.week THEN 3
    ELSE 2

\* C22: getContextualTTL returns max(30, floor(f * getOptimalTTL)) with f =
\* 0.5 for the current week, 1.5 for a later week and 1 for an earlier or
\* absent week or without a snapshot; smartSet stores under that duration,
\* and no entry smartSet or smartWrap has written has a TTL below 30.
C22_ContextualAdjustment ==
    /\ last.op \in {"getContextualTTL", "smartSet"} =>
          last.ttl = Max(MinimumTTL,
                         (TwiceContextFactor(last.week) * last.optimal) \div 2)
    /\ last.op = "smartSet" => memoryCache[last.key].ttl = last.ttl
    /\ \A k \in Keys :
          /\ memoryCache[k].format # "none" => memoryCache[k].ttl >= MinimumTTL
          /\ redisDb[k].format # "none" => redisDb[k].ttl >= MinimumTTL

\* C22 witness: smartSet of a matchup of the current week in a game window,
\* under a 20 s gameTimeTTL: 20 halved is 10, the entry is stored for 30 s.
C22_Witness ==
    /\ last.op = "smartSet"
    /\ last.dataType = "matchup"
    /\ nflState # NoState /\ last.week = nflState.week
    /\ last.optimal = 20
    /\ last.ttl = 30
    /\ memoryCache[last.key].ttl = 30

-----------------------------------------------------------------------------
(* Properties of deferred and operator-added rules (checked under          *)
(* DeferredSpec).                                                          *)

\* The rules the invalidator can hold.
KnownRules == {DefaultInvalidationRules[i] : i \in DOMAIN DefaultInvalidationRules}
                  \cup OperatorRules
Installed(rule) == \E i \in DOMAIN invalidationRules : invalidationRules[i] = rule

\* invalidateByTrigger has just returned for a trigger that selects the rule,
\* and the rule's pattern matches k.
TriggeredFor(rule, k) ==
    /\ last.op = "invalidateByTrigger"
    /\ Installed(rule)
    /\ last.trigger \in rule.triggers
    /\ Matches(rule.pattern, k)

\* C23 (as stated): when a trigger fires, every rule whose triggers contain
\* it is eventually applied to the local tier, whatever its priority: every
\* key its pattern matches is eventually out of the local tier.
C23_EverySelectedRuleApplied ==
    \A k \in DeferredKeys :
        (\E rule \in KnownRules : TriggeredFor(rule, k)) ~> ~Live(k)


\* C24: invalidateByTrigger returns with every key that no selected
\* immediate rule matches unchanged, so nothing matched only by scheduled
\* rules is deleted before it returns; when the timer's callback runs, every
\* key live then that a rule of its list matches is deleted and nothing
\* else, whether or not a Redis call fails on the way; and every pending
\* callback does run: the timers of the invalidator run out.
C24_ScheduledDeferred ==
    /\ [][last'.op = "invalidateByTrigger" =>
            \A k \in Keys :
               (\A i \in Selected(last'.trigger, {"immediate"}) :
                    ~Matches(invalidationRules[i].pattern, k))
                  => memoryCache'[k] = memoryCache[k]]_vars
    /\ [][\A rules \in scheduled :
            rules \notin scheduled' =>
               \A k \in Keys :
                  memoryCache'[k] =
                     IF Live(k) /\ \E i \in DOMAIN rules : Matches(rules[i].pattern, k)
                     THEN NoSlot ELSE memoryCache[k]]_vars
    /\ (scheduled # {}) ~> (scheduled = {})

\* C24 witness: the callback for two scheduled rules has run; the Redis
\* call for the trending key, matched by the first rule, failed, and the
\* second rule has removed foo:1.
C24_Witness ==
    /\ last.op = "processInvalidationRules"
    /\ last.redisFailed
    /\ last.key = "players:trending:1"
    /\ last.count = 1
    /\ lastSet["foo:1"] = Deleted
    /\ memoryCache["foo:1"].format = "none"
    /\ memoryCache["players:trending:1"].format = "none"
    /\ memoryCache["bar:1"].format # "none"


-----------------------------------------------------------------------------
(* The automatic scheduler over several hours (checked under CoolDownSpec). *)

\* CoolDownSpec: where the scheduler stands when the clock starts.  Out of
\* season on a Sunday at 05:25, game_day fired at 00:00; in or out of
\* season five minutes before Sunday 13:00 and before Tuesday 22:00,
\* nothing fired yet.  The clock runs for CoolDownMaxElapsed minutes.
CoolDownStarts ==
    {[now |-> 7 * 1440 + 5 * 60 + 25, lastRun |-> 7 * 1440,
      state |-> [season_type |-> "pre", week |-> 2]],
     [now |-> 7 * 1440 + 12 * 60 + 55, lastRun |-> Undefined, state |-> NoState],
     [now |-> 9 * 1440 + 21 * 60 + 55, lastRun |-> Undefined, state |-> NoState]}
CoolDownMaxElapsed == 130

\* setInterval(..., 5 * 60 * 1000): the next check is due once the one
\* before has run; the one-second timers set meanwhile have run out.
IntervalPasses ==
    /\ last.op = "checkScheduleBasedInvalidation"
    /\ scheduled = {}
    /\ \E start \in CoolDownStarts :
          /\ start.now <= now
          /\ now + ScheduleInterval <= start.now + CoolDownMaxElapsed
    /\ now' = now + ScheduleInterval
    /\ last' = Idle
    /\ UNCHANGED <<tierVars, redisStatus, configVars, engineVars, options,
                   strategies, ttlVars>>

CoolDownInit ==
    /\ memoryCache = [k \in Keys |-> NoSlot]
    /\ redisDb = [k \in Keys |-> NoSlot]
    /\ redisStatus = "reconnecting"
    /\ service = "EnhancedCacheService"
    /\ cacheEnabled = TRUE
    /\ useRedis = FALSE
    /\ options = DefaultOptions
    /\ strategies = DefaultStrategies
    /\ \E start \in CoolDownStarts :
          /\ now = start.now
          /\ nflState = start.state
          /\ lastStateUpdate = IF start.state = NoState THEN 0 ELSE start.now
          /\ lastInvalidationRun = start.lastRun
          /\ lastFired = [t \in ScheduleTriggers |->
                             IF t = "game_day" THEN start.lastRun ELSE Undefined]
    /\ invalidationRules = DefaultInvalidationRules
    /\ scheduled = {}
    /\ WarmerInit
    /\ lastSet = [k \in Keys |-> NoValue]
    /\ last = Idle

CoolDownNext ==
    \/ CheckScheduleBasedInvalidation
    \/ \E rules \in scheduled : RunScheduled(rules)
    \/ IntervalPasses
    \/ Return

CoolDownSpec == CoolDownInit /\ [][CoolDownNext]_vars

CoolDownTriggers == {"waiver_period", "game_day", "game_start"}

\* C25: a periodic check fires waiver_period, game_day or game_start only
\* when the scheduler has never fired that trigger or fired it at least the
\* trigger's cool-down (12 h, 6 h, 1 h) ago.
C25_NoRefireWithinCoolDown ==
    [][last'.op = "checkScheduleBasedInvalidation" =>
         \A t \in CoolDownTriggers :
            t \in last'.fired =>
               \/ lastFired[t] = Undefined
               \/ now - lastFired[t] >= CoolDown(t)]_vars

\* A check on a Sunday in season, at 15:05, fires nothing: game_day fired
\* at 13:00 and game_start at 15:00.
C25_Witness ==
    /\ last.op = "checkScheduleBasedInvalidation"
    /\ CalendarCondition("game_day", now, nflState)
    /\ CalendarCondition("game_start", now, nflState)
    /\ last.fired = {}
    /\ lastFired["game_day"] = 7 * 1440 + 13 * 60
    /\ lastFired["game_start"] = 7 * 1440 + 15 * 60
    /\ now = 7 * 1440 + 15 * 60 + 5


-----------------------------------------------------------------------------
(* invalidateLeague (checked under LeagueSpec).                            *)

\* The keys of the league categories that carry the league id.
LeagueEntries(id) ==
    CASE id = <<"1">> -> {"league:1"}
      [] id = <<"1", "2">> -> {"league:12", "matchups:12:3", "winners_bracket:12"}

\* C26 (as stated): invalidateLeague(id) removes from the local tier exactly
\* the entries keyed by league id and returns their number; every other
\* entry, of a league whose id begins with id or of another category, is
\* unchanged.
C26_LeagueIsolation ==
    [][last'.op = "invalidateLeague" =>
         /\ \A k \in Keys :
               memoryCache'[k] = IF Live(k) /\ k \in LeagueEntries(last'.pattern)
                                 THEN NoSlot ELSE memoryCache[k]
         /\ last'.count =
               Cardinality({k \in LeagueEntries(last'.pattern) : Live(k)})]_vars


-----------------------------------------------------------------------------
(* Accounting of a warming cycle (checked under WarmSpec).                 *)

Succeeded == {j \in 1..Len(tasks) : taskState[j] = "success"}
Failed == {j \in 1..Len(tasks) : taskState[j] = "failed"}

C30_FailedTaskCachesNothing ==
    [][\A j \in 1..Len(tasks) :
          (taskState[j] = "failed" /\ taskState'[j] = "failed") =>
             memoryCache'[tasks[j].key] \in {memoryCache[tasks[j].key], NoSlot}]_vars


-----------------------------------------------------------------------------
(* Termination of a warming cycle (checked under CycleSpec).               *)

\* C28: a warmCache cycle that has set warmingInProgress comes to its end
\* and resets it, whether or not the producers and the feed call of
\* getWarmingTasks ever answer.
C28_CycleTerminates == warmingInProgress ~> ~warmingInProgress

\* A cycle has ended although the feed call was rejected and the producer
\* of its only task has not answered: the task is failed, the producer
\* still running.
C28_Witness ==
    /\ last.op = "warmCache" /\ last.source = "completed"
    /\ ~warmingInProgress
    /\ Len(tasks) = 1
    /\ taskState = <<"failed">>
    /\ abandoned = {"state:nfl"}
    /\ warmingStats = [totalTasks |-> 1, completedTasks |-> 0, failedTasks |-> 1]


-----------------------------------------------------------------------------
(* Warming executions side by side (checked under TargetedSpec).           *)

\* C27 (as stated): a warmCache cycle and a warmLeagueData or filtered
\* manualWarm run never execute tasks at the same time, and no cycle
\* starts while such a run is executing.
C27_OneWarmingExecution ==
    /\ [](~(warmingInProgress /\ Running))
    /\ [][(~warmingInProgress /\ warmingInProgress') => ~Running]_vars


-----------------------------------------------------------------------------
(* Order of the producers in a cycle (checked under WarmSpec).             *)

\* The tasks of strictly higher priority than task j.
HigherThan(j) ==
    {i \in 1..Len(tasks) :
        priorityOrder(tasks[i].priority) > priorityOrder(tasks[j].priority)}
StartsProducer(j) == taskState[j] = "waiting" /\ taskState'[j] = "producing"

\* C31 (as stated): when the producer of a task starts, every task of
\* strictly higher priority has been through its check already: its
\* producer has started or it was found cached.
C31_PriorityOrder ==
    [][\A j \in 1..Len(tasks) :
          StartsProducer(j) => \A i \in HigherThan(j) : taskState[i] # "waiting"]_vars

\* C31 (amended): the task list is in priority order, and when the producer
\* of a task starts, every task of strictly higher priority has a result
\* or belongs to the batch that is running.
C31_PriorityOrderByBatch ==
    /\ [](\A i, j \in 1..Len(tasks) :
             i < j => priorityOrder(tasks[i].priority) >= priorityOrder(tasks[j].priority))
    /\ [][\A j \in 1..Len(tasks) :
             StartsProducer(j) =>
                \A i \in HigherThan(j) :
                   i \in Batch \/ taskState[i] \in {"success", "failed"}]_vars

\* The producer of the third task (medium) is running while the first task
\* (high) of the same batch has not yet made its check.
C31_Witness ==
    /\ warmingInProgress
    /\ Len(tasks) = 4
    /\ batchStart = 0
    /\ tasks[1].priority = "high" /\ tasks[3].priority = "medium"
    /\ taskState[1] = "waiting"
    /\ taskState[3] = "producing"


-----------------------------------------------------------------------------
(* Properties of overlapping calls (checked under OverlapSpec).            *)

\* Both followed calls are set calls of OverlapKey that have completed, and
\* no Redis SET of theirs was rejected.
BothSetsCompleted ==
    /\ Len(calls) = 2
    /\ \A i \in 1..2 : calls[i].op = "set" /\ calls[i].phase = "done" /\ ~calls[i].failed

\* C32 (as stated): last writer wins.  When set(k, a) was called before
\* set(k, b) and both have completed with no later write to k, get(k)
\* returns b and the local tier holds b, whatever the sizes of a and b and
\* however the compression and Redis steps interleave.
C32_LastWriterWins ==
    BothSetsCompleted =>
        /\ get(OverlapKey, FALSE).result = calls[2].value
        /\ LocalValue(OverlapKey) = calls[2].value

\* C33: no single-flight.  Every wrap or smartWrap call that found nothing
\* under the key has its own producer running or settled, and once the call
\* has ended the caller holds what that producer gave (its value or its
\* error).
C33_NoSingleFlight ==
    \A i \in DOMAIN calls :
        (calls[i].op \in WrapOps /\ calls[i].missed) =>
            \/ calls[i].phase = "producing"
            \/ /\ calls[i].phase \in {"compressing", "redis", "done"}
               /\ calls[i].produced # NoValue
               /\ calls[i].phase = "done" => calls[i].result = calls[i].produced

\* C33 witness: two calls missed while neither had stored anything, and
\* both have ended with the different results of their own producers.
C33_Witness ==
    /\ Len(calls) = 2
    /\ \A i \in 1..2 : calls[i].op \in WrapOps /\ calls[i].missed /\ calls[i].phase = "done"
    /\ calls[1].result = Num(7)
    /\ calls[2].result = Arr(<<1, 1, 1>>)


-----------------------------------------------------------------------------
(* Further properties of the cache manager (checked under ManagerSpec).    *)

\* C34 (as stated): with memory pressure not critical, getHealthStatus
\* returns degraded whenever at least one signal is not ideal (Redis marked
\* unavailable, memory high, compression disabled, warmer never run,
\* invalidator never run) and healthy only when all are ideal; it returns
\* unhealthy only under critical memory pressure.
C34_AnySignalDegrades ==
    last.op = "getHealthStatus" =>
        /\ last.source = "unhealthy" => last.count > 90
        /\ last.count <= 90 =>
              (last.source = "degraded" <=>
                  \/ last.count > 70
                  \/ ~useRedis
                  \/ ~options.enabled
                  \/ WarmerNeverRan
                  \/ lastInvalidationRun = Undefined)
        /\ last.source = "healthy" =>
              /\ last.count <= 70 /\ useRedis /\ options.enabled
              /\ ~WarmerNeverRan /\ lastInvalidationRun # Undefined

\* C34 (amended): with memory pressure not critical, getHealthStatus
\* returns degraded whenever Redis is marked unavailable, memory is high or
\* the warmer has never run, and healthy when none of the three holds:
\* disabled compression and an invalidator that never ran are reported in
\* the details only.  It returns unhealthy only under critical memory
\* pressure.
C34_ThreeSignalsDegrade ==
    last.op = "getHealthStatus" =>
        /\ last.source = "unhealthy" => last.count > 90
        /\ last.count <= 90 =>
              (last.source = "degraded" <=>
                  (last.count > 70 \/ ~useRedis \/ WarmerNeverRan))
        /\ last.source = "healthy" =>
              (last.count <= 70 /\ useRedis /\ ~WarmerNeverRan)

\* C34 witness: a degraded report whose only signal is the warmer that never
\* ran.
C34_Witness ==
    /\ last.op = "getHealthStatus" /\ last.source = "degraded" /\ last.count <= 70
    /\ useRedis /\ options.enabled /\ WarmerNeverRan


\* C35 (as stated): emergencyReset returns success only at the end of a
\* warming cycle that it started after the flush, also when a cycle was
\* already running at the call.
C35_ResetForcesWarming ==
    [][(last.op # "emergencyReset" /\ last'.op = "emergencyReset"
            /\ last'.source = "success")
         => (resetPending /\ warmingInProgress /\ ~warmingInProgress')]_vars


-----------------------------------------------------------------------------
(* Properties of the warming scheduler (checked under WarmScheduleSpec).   *)

\* C36: the scheduler starts a cycle at a check only when at least 30
\* minutes (phase regular or post) or 2 hours (any other phase, or no
\* snapshot) have passed since the last completed warmCache cycle, and two
\* consecutive cycles started by the scheduler are at least the interval in
\* force at the second start apart.
C36_ScheduledInterval ==
    lastScheduled.start # Undefined =>
        /\ lastScheduled.interval =
              (IF lastScheduled.phase \in {"regular", "post"}
               THEN SeasonWarmingInterval ELSE OffSeasonWarmingInterval)
        /\ lastScheduled.since # Undefined =>
              lastScheduled.start - lastScheduled.since >= lastScheduled.interval
        /\ lastScheduled.previous # Undefined =>
              lastScheduled.start - lastScheduled.previous >= lastScheduled.interval

\* C36 witness: the scheduler has started a cycle exactly 30 minutes after
\* the cycle before it completed, in the regular phase.
C36_Witness ==
    /\ lastScheduled.since # Undefined
    /\ lastScheduled.interval = SeasonWarmingInterval
    /\ lastScheduled.start - lastScheduled.since = SeasonWarmingInterval
    /\ lastScheduled.previous # Undefined

\* C36 witness off season: a cycle started by the scheduler two hours after
\* the cycle before it, no earlier check having started one.
C36_WitnessOffSeason ==
    /\ lastScheduled.previous # Undefined
    /\ lastScheduled.interval = OffSeasonWarmingInterval
    /\ lastScheduled.start - lastScheduled.previous = OffSeasonWarmingInterval


-----------------------------------------------------------------------------
(* Properties of compress (checked under CompressSpec).                    *)

\* The compress call that a step has just added.
Compressed(c) ==
    LET jsonString == JSONstringify(c.value) IN
    /\ c.slot.compressed <=>
          (options.enabled /\ Len(jsonString) >= options.threshold /\ ~c.failed)
    /\ c.slot.originalSize = Len(jsonString)
    /\ c.slot.compressed =>
          (c.slot.compressedSize # Undefined /\ c.slot.compressedSize = Len(c.slot.data))
    /\ ~c.slot.compressed => c.slot.data = jsonString

\* C37: compress(v) returns compressed = true exactly when compression is
\* enabled, the serialized size of v is at least the threshold and gzip did
\* not fail; with compressed = true both sizes are present, and with
\* compressed = false the payload is the plain serialized value.
C37_CompressionRule ==
    [][(Len(calls') = Len(calls) + 1 /\ calls'[Len(calls')].op = "compress")
          => Compressed(calls'[Len(calls')])]_vars

\* C37 witness: a value whose serialized size equals the threshold has been
\* compressed, and another call under the same options whose gzip failed
\* returned the plain text.
C37_Witness ==
    /\ Len(calls) = 2
    /\ calls[1].op = "compress" /\ calls[1].slot.compressed
    /\ calls[1].slot.originalSize = options.threshold
    /\ calls[2].op = "compress" /\ calls[2].failed /\ ~calls[2].slot.compressed


-----------------------------------------------------------------------------
(* Properties of optimizeCache (checked under OptimizeSpec).               *)

\* Every key a tier holds before the step is held by it after the step.
KeysKept ==
    \A k \in Keys :
        /\ memoryCache[k].format # "none" => memoryCache'[k].format # "none"
        /\ redisDb[k].format # "none" => redisDb'[k].format # "none"

-----------------------------------------------------------------------------
(* Properties of processBatch (checked under BatchSpec).                   *)

\* The methods of the requests of a batch.
MethodsOf(requests) == {requests[i].method : i \in DOMAIN requests}

\* Every dependency names a method of the batch and the dependencies are
\* not circular: the methods can be ranked with every dependency below the
\* method that declares it.
Orderable(requests) ==
    /\ \A i \in DOMAIN requests : requests[i].dependencies \subseteq MethodsOf(requests)
    /\ \E rank \in [MethodsOf(requests) -> 1..MaxBatch] :
          \A i \in DOMAIN requests :
              \A m \in requests[i].dependencies : rank[m] < rank[requests[i].method]

\* The executor of request i is started by the step.
Starts(i) ==
    /\ rpc'.status[i] = "running"
    /\ i \in DOMAIN rpc.status => rpc.status[i] = "waiting"

\* Request i had completed before the step.
Completed(i) == i \in DOMAIN rpc.status /\ rpc.status[i] \in {"result", "error"}

\* C39 (as stated): a request that declares a dependency on method m does
\* not start executing until every request of the batch whose method is m
\* has completed, unless the dependencies are circular or name a method
\* absent from the batch.
C39_DependencyOrder ==
    [][\A i \in DOMAIN rpc'.requests :
          (Starts(i) /\ Orderable(rpc'.requests)) =>
              \A j \in DOMAIN rpc'.requests :
                  rpc'.requests[j].method \in rpc'.requests[i].dependencies
                      => Completed(j)]_vars

\* processBatch has returned one response for every request of the batch.
OneResponsePerRequest ==
    rpc.returned =>
        /\ Len(rpc.responses) = Len(rpc.requests)
        /\ \A i \in DOMAIN rpc.requests :
              Cardinality({j \in DOMAIN rpc.responses : rpc.responses[j].id = i}) = 1

\* A processBatch call whose executors settle returns.
BatchTerminates == (rpc # NoBatch) ~> rpc.returned

=============================================================================
